---- MODULE Spec2Model ----
(***************************************************************************)
(* Model of the dependency extractor of codenebula: the ingestion of a     *)
(* file tree (getFileTree / processFileList), the reference resolver       *)
(* (resolveImportPath), the extraction engine (parseFiles) and the graph   *)
(* assembly of processGraph.                                               *)
(*                                                                         *)
(* Paths, references and extensions are TLA+ strings; the JavaScript       *)
(* string methods the code uses (split, join, startsWith, endsWith,        *)
(* includes, replace) are the operators of the first section.              *)
(***************************************************************************)
EXTENDS Integers, Sequences, FiniteSets, TLC

VARIABLES
    route,            \* which ingestion handler built the tree
    picked,           \* the directory the user picked: its files, in order
    tree,             \* FileNode[] handed to processGraph
    initialData,      \* treeToGraphData(tree).nodes
    pc,               \* position of the scan
    fileMap,          \* parseFiles: keys of fileMap, in insertion order
    nodesToProcess,   \* parseFiles: the flattened file leaves
    processed,        \* parseFiles: the loop counter
    dependencies,     \* parseFiles: the accumulated FileDependency[]
    failed,           \* paths whose iteration ended in the catch
    contentRead,      \* paths readFileContent was called on
    initialGraphData, \* the graph processGraph has built
    status,           \* the status line
    loading,          \* the loading flag
    currentPath,      \* resolveImportPath: argument
    importPath,       \* resolveImportPath: argument
    lang,             \* resolveImportPath: argument
    resolved,         \* resolveImportPath: result
    lastIndexes,      \* PATTERNS: the lastIndex of every shared regular expression
    returned,         \* what the parseFiles calls so far have returned
    opens,            \* how many more times the user opens the directory
    filters,          \* the page's filters: search, folders, extensions, flags
    graphData,        \* the graph handed to the renderer after filtering
    onProgress,       \* parseFiles: what the progress callback does
    second            \* a second parseFiles call running beside the first

vars == <<route, picked, tree, initialData, pc, fileMap, nodesToProcess,
          processed, dependencies, failed, contentRead, initialGraphData,
          status, loading,
          currentPath, importPath, lang, resolved, lastIndexes,
          returned, opens, filters, graphData, onProgress, second>>

scanVars == <<route, picked, tree, initialData, nodesToProcess, processed,
              failed, contentRead, status, loading>>

resolveVars == <<currentPath, importPath, lang, resolved>>

sessionVars == <<lastIndexes, returned, opens>>

viewVars == <<filters, graphData>>

callVars == <<onProgress, second>>

-----------------------------------------------------------------------------
(* Bounds of the model                                                     *)

\* files of one picked directory
MaxFiles == 3
\* reference statements in all the files of one picked directory
MaxStatements == 4
\* reads that may fail during one scan
MaxFailures == 1
\* length of a run of equal raw edges handed to the assembly
MaxRun == 15

-----------------------------------------------------------------------------
(* JavaScript string and array methods                                     *)

\* s[i - 1]: the i-th character (1-based) as a string
CharAt(s, i) == SubSeq(s, i, i)

\* s.startsWith(p)
StartsWith(s, p) == Len(p) <= Len(s) /\ SubSeq(s, 1, Len(p)) = p

\* s.endsWith(x)
EndsWith(s, x) == Len(x) <= Len(s) /\ SubSeq(s, Len(s) - Len(x) + 1, Len(s)) = x

\* s.includes(x)
Includes(s, x) ==
    \E i \in 1..(Len(s) - Len(x) + 1) : SubSeq(s, i, i + Len(x) - 1) = x

RECURSIVE SplitFrom(_, _, _, _)
SplitFrom(s, sep, i, cur) ==
    IF i > Len(s) THEN <<cur>>
    ELSE IF CharAt(s, i) = sep THEN <<cur>> \o SplitFrom(s, sep, i + 1, "")
    ELSE SplitFrom(s, sep, i + 1, cur \o CharAt(s, i))

\* s.split(sep) for a one-character separator
Split(s, sep) == SplitFrom(s, sep, 1, "")

RECURSIVE Join(_, _)
\* parts.join(sep)
Join(parts, sep) ==
    IF Len(parts) = 0 THEN ""
    ELSE IF Len(parts) = 1 THEN parts[1]
    ELSE parts[1] \o sep \o Join(Tail(parts), sep)

\* parts.slice(0, -1)
DropLast(parts) == SubSeq(parts, 1, Len(parts) - 1)

\* parts.pop() as a value: the last element
Last(parts) == parts[Len(parts)]

\* parts.filter(Boolean): the non-empty strings
FilterBoolean(parts) == SelectSeq(parts, LAMBDA p : p # "")

RECURSIVE ReplaceAll(_, _, _)
\* s.replace(/c/g, by) for a one-character c
ReplaceAll(s, c, by) ==
    IF Len(s) = 0 THEN ""
    ELSE (IF CharAt(s, 1) = c THEN by ELSE CharAt(s, 1))
         \o ReplaceAll(SubSeq(s, 2, Len(s)), c, by)

\* keys.includes(k) for a sequence of keys: Map.has
Has(keys, k) == \E i \in 1..Len(keys) : keys[i] = k

\* the value null
Null == "<null>"

-----------------------------------------------------------------------------
(* resolveImportPath                                                       *)

\* the extension list of the relative branch
RelativeExtensions ==
    <<".ts", ".tsx", ".js", ".jsx", ".css", ".scss", ".py", ".dart", ".rs",
      ".go", ".java", ".cs", ".cpp", ".rb", ".php", ".isml", ".jsp", ".jspx",
      ".asp", ".aspx">>

\* the extension list of the non-relative branch
SuffixExtensions ==
    <<".js", ".ts", ".tsx", ".jsx", ".css", ".scss", ".h", ".hpp", ".cpp", ".cs">>

RECURSIVE WalkParts_NoPop(_, _, _)
\* WalkParts with ".." skipped like ".": nothing is popped
WalkParts_NoPop(parts, i, stack) ==
    IF i > Len(parts) THEN stack
    ELSE IF parts[i] = "." \/ parts[i] = ".." THEN WalkParts_NoPop(parts, i + 1, stack)
    ELSE WalkParts_NoPop(parts, i + 1, Append(stack, parts[i]))

RECURSIVE WalkParts_KeepExcess(_, _, _)
\* WalkParts keeping a ".." that finds the stack empty, as a segment
WalkParts_KeepExcess(parts, i, stack) ==
    IF i > Len(parts) THEN stack
    ELSE IF parts[i] = "." THEN WalkParts_KeepExcess(parts, i + 1, stack)
    ELSE IF parts[i] = ".."
         THEN WalkParts_KeepExcess(parts, i + 1,
                        IF Len(stack) = 0 THEN <<"..">> ELSE DropLast(stack))
    ELSE WalkParts_KeepExcess(parts, i + 1, Append(stack, parts[i]))

RECURSIVE WalkParts(_, _, _)
\* the loop over the reference's parts: "." skips, ".." pops, else push
WalkParts(parts, i, stack) ==
    IF i > Len(parts) THEN stack
    ELSE IF parts[i] = "." THEN WalkParts(parts, i + 1, stack)
    ELSE IF parts[i] = ".."
         THEN WalkParts(parts, i + 1,
                        IF Len(stack) = 0 THEN stack ELSE DropLast(stack))
    ELSE WalkParts(parts, i + 1, Append(stack, parts[i]))

\* resolvedPath of the relative branch
ResolvedPath(cur, imp) ==
    LET currentDir == Join(DropLast(Split(cur, "/")), "/")
        parts      == Split(imp, "/")
        stack      == FilterBoolean(Split(currentDir, "/"))
    IN  Join(WalkParts(parts, 1, stack), "/")

RECURSIVE FirstWithSuffix(_, _, _, _, _)
\* the first extension ext, from position i, with base + mid + ext indexed
FirstWithSuffix(keys, base, mid, exts, i) ==
    IF i > Len(exts) THEN Null
    ELSE IF Has(keys, base \o mid \o exts[i]) THEN base \o mid \o exts[i]
    ELSE FirstWithSuffix(keys, base, mid, exts, i + 1)

\* ResolveRelative with the index files tried before the plain extensions
ResolveRelative_IndexFirst(cur, imp, keys) ==
    LET resolvedPath == ResolvedPath(cur, imp)
        byExt        == FirstWithSuffix(keys, resolvedPath, "", RelativeExtensions, 1)
        byIndex      == FirstWithSuffix(keys, resolvedPath, "/index", RelativeExtensions, 1)
    IN  IF Has(keys, resolvedPath) THEN resolvedPath
        ELSE IF byIndex # Null THEN byIndex
        ELSE byExt

\* ResolveRelative without the index files
ResolveRelative_NoIndex(cur, imp, keys) ==
    LET resolvedPath == ResolvedPath(cur, imp)
    IN  IF Has(keys, resolvedPath) THEN resolvedPath
        ELSE FirstWithSuffix(keys, resolvedPath, "", RelativeExtensions, 1)

\* ResolveRelative that takes the first indexed path beginning with the
\* joined path instead of appending extensions
ResolveRelative_ByPrefix(cur, imp, keys) ==
    LET resolvedPath == ResolvedPath(cur, imp)
        hits == {i \in 1..Len(keys) : StartsWith(keys[i], resolvedPath) /\ keys[i] # cur}
    IN  IF hits = {} THEN Null
        ELSE keys[CHOOSE i \in hits : \A j \in hits : j <= i]

\* ResolveRelative without a look at the index: the joined path is returned
ResolveRelative_Unindexed(cur, imp, keys) == ResolvedPath(cur, imp)

\* the relative branch: exact match, then extensions, then index files
ResolveRelative(cur, imp, keys) ==
    LET resolvedPath == ResolvedPath(cur, imp)
        byExt        == FirstWithSuffix(keys, resolvedPath, "", RelativeExtensions, 1)
        byIndex      == FirstWithSuffix(keys, resolvedPath, "/index", RelativeExtensions, 1)
    IN  IF Has(keys, resolvedPath) THEN resolvedPath
        ELSE IF byExt # Null THEN byExt
        ELSE byIndex

\* PotentialSuffixes testing the whole reference, not its final segment, for
\* a "."
PotentialSuffixes_DotAnywhere(imp, lng) ==
    IF lng = "java" THEN <<ReplaceAll(imp, ".", "/") \o ".java">>
    ELSE IF lng = "py"
         THEN <<ReplaceAll(imp, ".", "/") \o ".py",
                ReplaceAll(imp, ".", "/") \o "/__init__.py">>
    ELSE <<imp>> \o
         (IF ~Includes(imp, ".")
          THEN [i \in 1..Len(SuffixExtensions) |-> imp \o SuffixExtensions[i]]
          ELSE <<>>)

\* PotentialSuffixes without the branches of the dotted-module languages:
\* every language takes the default branch
PotentialSuffixes_DottedVerbatim(imp, lng) ==
    <<imp>> \o
    (IF ~Includes(Last(Split(imp, "/")), ".")
     THEN [i \in 1..Len(SuffixExtensions) |-> imp \o SuffixExtensions[i]]
     ELSE <<>>)

\* potentialSuffixes of the non-relative branch
PotentialSuffixes(imp, lng) ==
    IF lng = "java" THEN <<ReplaceAll(imp, ".", "/") \o ".java">>
    ELSE IF lng = "py"
         THEN <<ReplaceAll(imp, ".", "/") \o ".py",
                ReplaceAll(imp, ".", "/") \o "/__init__.py">>
    ELSE <<imp>> \o
         (IF ~Includes(Last(Split(imp, "/")), ".")
          THEN [i \in 1..Len(SuffixExtensions) |-> imp \o SuffixExtensions[i]]
          ELSE <<>>)

\* SuffixMatches without the prefixIndex test: a bare endsWith
SuffixMatches_NoBoundary(path, suffix) == EndsWith(path, suffix)

\* the test of the inner loop: path ends with suffix at a segment boundary
SuffixMatches(path, suffix) ==
    /\ EndsWith(path, suffix)
    /\ LET prefixIndex == Len(path) - Len(suffix)
       IN  prefixIndex = 0 \/ CharAt(path, prefixIndex) = "/"

RECURSIVE FirstKeyMatching(_, _, _)
\* for (const path of fileMap.keys()): the first key matching the suffix
FirstKeyMatching(keys, suffix, i) ==
    IF i > Len(keys) THEN Null
    ELSE IF SuffixMatches(keys[i], suffix) THEN keys[i]
    ELSE FirstKeyMatching(keys, suffix, i + 1)

\* ScanSuffixes with the loops exchanged: the first key, in index order,
\* that matches any of the suffixes
ScanSuffixes_IndexFirst(keys, suffixes, j) ==
    LET hits == {i \in 1..Len(keys) :
                    \E c \in j..Len(suffixes) : SuffixMatches(keys[i], suffixes[c])}
    IN  IF hits = {} THEN Null
        ELSE keys[CHOOSE i \in hits : \A h \in hits : i <= h]

RECURSIVE ScanSuffixes(_, _, _)
\* for (const suffix of potentialSuffixes): the first suffix with a match
ScanSuffixes(keys, suffixes, j) ==
    IF j > Len(suffixes) THEN Null
    ELSE IF FirstKeyMatching(keys, suffixes[j], 1) # Null
         THEN FirstKeyMatching(keys, suffixes[j], 1)
    ELSE ScanSuffixes(keys, suffixes, j + 1)

\* ResolveSuffix giving the reference itself when no key matches, as the
\* name of a package outside the tree
ResolveSuffix_ExternalNode(imp, keys, lng) ==
    IF ScanSuffixes(keys, PotentialSuffixes(imp, lng), 1) = Null THEN imp
    ELSE ScanSuffixes(keys, PotentialSuffixes(imp, lng), 1)

\* the non-relative branch
ResolveSuffix(imp, keys, lng) == ScanSuffixes(keys, PotentialSuffixes(imp, lng), 1)

resolveImportPath(cur, imp, keys, lng) ==
    IF StartsWith(imp, ".") THEN ResolveRelative(cur, imp, keys)
    ELSE ResolveSuffix(imp, keys, lng)

-----------------------------------------------------------------------------
(* Ingestion: the picked directory, processFileList, getFileTree           *)

\* a File of the upload's FileList, or the file behind a FileSystemFileHandle
FileObject(path, content) == [webkitRelativePath |-> path, content |-> content]

\* the optional field handle: a node without one holds NoHandle, a node with
\* one holds Handle(file)
NoHandle == <<>>
Handle(file) == <<file>>

\* a field a node may lack is a field its record may lack
Present(node, field) == field \in DOMAIN node

\* `${node.name}` of a node
NameOf(node) == IF Present(node, "name") THEN node.name ELSE "undefined"

FileLeaf(name, path, handle) ==
    [name |-> name, kind |-> "file", path |-> path, children |-> <<>>,
     handle |-> handle]

DirectoryNode(name, path, children) ==
    [name |-> name, kind |-> "directory", path |-> path, children |-> children,
     handle |-> NoHandle]

\* currentLevel.find(n => n.name === part): its position, 0 when absent
FindByName(level, part) ==
    IF \E i \in 1..Len(level) : level[i].name = part
    THEN CHOOSE i \in 1..Len(level) :
            /\ level[i].name = part
            /\ \A j \in 1..(i - 1) : level[j].name # part
    ELSE 0

RECURSIVE InsertParts(_, _, _, _, _)
\* pathParts.forEach of processFileList, from part i, on the level reached
InsertParts(level, pathParts, i, prevPath, file) ==
    IF i > Len(pathParts) THEN level
    ELSE
    LET part    == pathParts[i]
        isFile  == i = Len(pathParts)
        curPath == IF prevPath # "" THEN prevPath \o "/" \o part ELSE part
        found   == FindByName(level, part)
        level1  == IF found # 0 THEN level
                   ELSE IF isFile
                        THEN Append(level, FileLeaf(part, curPath, Handle(file)))
                        ELSE Append(level, DirectoryNode(part, curPath, <<>>))
        at      == IF found # 0 THEN found ELSE Len(level1)
        node    == level1[at]
    IN  IF ~isFile /\ node.kind = "directory"
        THEN [level1 EXCEPT ![at].children =
                 InsertParts(node.children, pathParts, i + 1, curPath, file)]
        ELSE InsertParts(level1, pathParts, i + 1, curPath, file)

RECURSIVE InsertFiles(_, _, _)
InsertFiles(root, files, k) ==
    IF k > Len(files) THEN root
    ELSE InsertFiles(
            InsertParts(root, Split(files[k].webkitRelativePath, "/"), 1, "", files[k]),
            files, k + 1)

processFileList(files) == InsertFiles(<<>>, files, 1)

\* the FileSystemDirectoryHandle of the picked directory: its entries, nested
\* as the files lie in it (the first segment of every path is its name)
DirectoryHandle(files) ==
    IF Len(files) = 0 THEN DirectoryNode("empty", "empty", <<>>)
    ELSE processFileList(files)[1]

RECURSIVE getFileTree(_, _)
getFileTree(dirHandle, path) ==
    [k \in 1..Len(dirHandle.children) |->
        LET entry     == dirHandle.children[k]
            entryPath == path \o "/" \o entry.name
        IN  IF entry.kind = "file"
            THEN FileLeaf(entry.name, entryPath, entry.handle)
            ELSE DirectoryNode(entry.name, entryPath, getFileTree(entry, entryPath))]

\* A JavaScript number of the graph (val, size): degree * 1.5 has a half, so
\* every such number is held in halves, as twice its value.
Num(n) == 2 * n

\* val: 5 of treeToGraphData
DefaultVal == 5

RECURSIVE TraverseAll(_, _)
RECURSIVE Traverse(_, _)
\* traverse(node, parentPath) of treeToGraphData: the nodes it pushes
Traverse(node, parentPath) ==
    IF Present(node, "kind") /\ node.kind = "file"
    THEN <<[id |-> node.path, name |-> NameOf(node),
            group |-> IF parentPath # "" THEN parentPath ELSE "root",
            val |-> Num(DefaultVal)]>>
    ELSE IF Present(node, "children") THEN TraverseAll(node.children, node.path)
    ELSE <<>>

TraverseAll(nodes, parentPath) ==
    IF Len(nodes) = 0 THEN <<>>
    ELSE Traverse(nodes[1], parentPath) \o TraverseAll(Tail(nodes), parentPath)

\* treeToGraphData(tree).nodes
treeToGraphData(t) == TraverseAll(t, "root")

RECURSIVE mapFiles(_)
\* mapFiles of parseFiles: the file leaves, depth first; a node that is no
\* file and has no children is passed over
mapFiles(nodes) ==
    IF Len(nodes) = 0 THEN <<>>
    ELSE (IF Present(nodes[1], "kind") /\ nodes[1].kind = "file" THEN <<nodes[1]>>
          ELSE IF Present(nodes[1], "children") THEN mapFiles(nodes[1].children)
          ELSE <<>>)
         \o mapFiles(Tail(nodes))

RECURSIVE MapKeys(_, _)
\* the keys of fileMap after fileMap.set(node.path, node) for each leaf:
\* a Map keeps a key at the position of its first insertion
MapKeys(leaves, keys) ==
    IF Len(leaves) = 0 THEN keys
    ELSE MapKeys(Tail(leaves),
                 IF Has(keys, leaves[1].path) THEN keys
                 ELSE Append(keys, leaves[1].path))

-----------------------------------------------------------------------------
(* The pattern catalogue                                                   *)

UpperCase == "ABCDEFGHIJKLMNOPQRSTUVWXYZ"
LowerCase == "abcdefghijklmnopqrstuvwxyz"

LowerChar(c) ==
    IF \E i \in 1..Len(UpperCase) : CharAt(UpperCase, i) = c
    THEN CharAt(LowerCase, CHOOSE i \in 1..Len(UpperCase) : CharAt(UpperCase, i) = c)
    ELSE c

RECURSIVE ToLowerCase(_)
\* s.toLowerCase()
ToLowerCase(s) ==
    IF Len(s) = 0 THEN ""
    ELSE LowerChar(CharAt(s, 1)) \o ToLowerCase(SubSeq(s, 2, Len(s)))

\* what a property Object.prototype defines gives to a lookup in a table
\* written as an object literal: a value that is truthy and no key of PATTERNS
Inherited == "<inherited>"

\* EXT_MAP[ext], Null (undefined) for a name neither the table nor its
\* prototype holds
EXT_MAP(ext) ==
    CASE ext \in {"js", "mjs", "cjs"} -> "js"
      [] ext \in {"ts", "mts"} -> "ts"
      [] ext = "jsx" -> "jsx"
      [] ext = "tsx" -> "tsx"
      [] ext = "css" -> "css"
      [] ext \in {"scss", "sass"} -> "scss"
      [] ext = "py" -> "py"
      [] ext = "dart" -> "dart"
      [] ext = "rs" -> "rs"
      [] ext = "go" -> "go"
      [] ext = "java" -> "java"
      [] ext = "cs" -> "cs"
      [] ext \in {"cpp", "cc", "cxx", "c", "h", "hpp"} -> "cpp"
      [] ext = "rb" -> "rb"
      [] ext = "php" -> "php"
      [] ext = "isml" -> "isml"
      [] ext \in {"jsp", "jspx", "jspf"} -> "jsp"
      [] ext \in {"asp", "aspx", "asa"} -> "asp"
      [] ext \in {"constructor", "__proto__"} -> Inherited
      [] OTHER -> Null

\* PATTERNS[lang]: the regular expressions of a language, in catalogue
\* order, each named by the statement form it matches
PATTERNS(lng) ==
    CASE lng \in {"js", "ts"} -> <<"from '_'", "import '_'", "import('_')", "require('_')">>
      [] lng \in {"jsx", "tsx"} -> <<"from '_'", "import '_'", "require('_')">>
      [] lng = "css" -> <<"@import '_'", "url(_)">>
      [] lng = "scss" -> <<"@import '_'", "@use '_'">>
      [] lng = "py" -> <<"from _ import", "^import _">>
      [] lng = "dart" -> <<"import '_'">>
      [] lng = "rs" -> <<"use _", "mod _;">>
      [] lng = "go" -> <<"import '_'", "import ( _ )">>
      [] lng = "java" -> <<"import _;", "import static _;">>
      [] lng = "cs" -> <<"using _;">>
      [] lng = "cpp" -> <<"#include _">>
      [] lng = "rb" -> <<"require '_'", "require_relative '_'">>
      [] lng = "php" -> <<"require '_'", "require_once '_'", "include '_'",
                          "include_once '_'", "use _;">>
      [] lng = "isml" -> <<"<isinclude template='_'", "<ismodule template='_'",
                           "<isdecorate template='_'", "require( '_' )",
                           "${Resource.msg('_'">>
      [] lng = "jsp" -> <<"<%@ include file='_'", "<%@ page import='_'",
                          "<%@ taglib uri='_'", "<jsp:include page='_'",
                          "<jsp:forward page='_'", "<c:import url='_'", "import _;">>
      [] lng = "asp" -> <<"<!-- #include (_)='_' -->", "Server.Execute('_'",
                          "Server.Transfer('_'", "Response.Redirect('_'">>

\* A file's text is the sequence of the reference statements in it: the form
\* of each (the one regular expression that matches it) and what the
\* expression's capture groups hold (Null: the group is undefined).
Statement(form, g1, g2) == [form |-> form, g1 |-> g1, g2 |-> g2]

\* a regular expression's exec(content) with its cursor at lastIndex: the
\* position of the next statement of its form, 0 (null) when there is none
Exec(content, form, lastIndex) ==
    IF \E p \in (lastIndex + 1)..Len(content) : content[p].form = form
    THEN CHOOSE p \in (lastIndex + 1)..Len(content) :
            /\ content[p].form = form
            /\ \A q \in (lastIndex + 1)..(p - 1) : content[q].form # form
    ELSE 0

\* CapturedPath with the groups exchanged: match[1] || match[2]
CapturedPath_Group1First(match) ==
    IF match.g1 # Null /\ match.g1 # "" THEN match.g1 ELSE match.g2

\* match[2] || match[1]
CapturedPath(match) ==
    IF match.g2 # Null /\ match.g2 # "" THEN match.g2 ELSE match.g1

RECURSIVE MatchLoop(_, _, _, _, _, _)
\* while ((match = pattern.exec(content)) !== null): the edges it pushes
MatchLoop(node, content, form, lastIndex, keys, lng) ==
    LET at == Exec(content, form, lastIndex)
    IN  IF at = 0 THEN <<>>
        ELSE
        LET imp  == CapturedPath(content[at])
            hit  == IF imp = Null \/ imp = "" THEN Null
                    ELSE resolveImportPath(node.path, imp, keys, lng)
            rest == MatchLoop(node, content, form, at, keys, lng)
        IN  IF hit # Null /\ hit # ""
            THEN <<[source |-> node.path, target |-> hit]>> \o rest
            ELSE rest

RECURSIVE LoopCursor(_, _, _)
\* pattern.lastIndex when the match loop is left: every exec that matches
\* moves the cursor behind the match, the exec that returns null puts it
\* back to 0
LoopCursor(content, form, lastIndex) ==
    LET at == Exec(content, form, lastIndex)
    IN  IF at = 0 THEN 0 ELSE LoopCursor(content, form, at)

\* the keys of PATTERNS
Languages ==
    {"js", "ts", "jsx", "tsx", "css", "scss", "py", "dart", "rs", "go", "java",
     "cs", "cpp", "rb", "php", "isml", "jsp", "asp"}

\* the cursors of the pattern table as the module's load leaves them
FreshCursors == [lng \in Languages |-> [k \in 1..Len(PATTERNS(lng)) |-> 0]]

RECURSIVE Concat(_)
\* the edges pushed pattern after pattern, as one list
Concat(seqs) == IF Len(seqs) = 0 THEN <<>> ELSE Head(seqs) \o Concat(Tail(seqs))

\* PatternLoop with one exec per pattern and no reset of the cursor: the
\* pattern is tried once, from where its last use left it
PatternLoop_OneExecNoReset(node, content, patterns, keys, lng, cursors) ==
    [edges |->
        Concat([k \in 1..Len(patterns) |->
                  IF Exec(content, patterns[k], cursors[k]) = 0 THEN <<>>
                  ELSE MatchLoop(node, <<content[Exec(content, patterns[k], cursors[k])]>>,
                                 patterns[k], 0, keys, lng)]),
     cursors |-> [k \in 1..Len(patterns) |-> Exec(content, patterns[k], cursors[k])]]

\* for (const pattern of patterns): pattern.lastIndex = 0, then the match
\* loop; cursors are the cursors of the language's patterns before the loop,
\* the result holds the edges pushed and the cursors left
PatternLoop(node, content, patterns, keys, lng, cursors) ==
    [edges |->
        Concat([k \in 1..Len(patterns) |->
                  MatchLoop(node, content, patterns[k], 0, keys, lng)]),
     cursors |-> [k \in 1..Len(patterns) |-> LoopCursor(content, patterns[k], 0)]]

\* node.name.split(".").pop()?.toLowerCase()
ExtensionOf(name) == ToLowerCase(Last(Split(name, ".")))

\* readFileContent when the read succeeds: "" without a handle, else the text
readFileContent(node) ==
    IF node.handle = NoHandle THEN <<>> ELSE node.handle[1].content

\* one iteration of the file loop when its read succeeds, the pattern table
\* being at table: the edges it pushes, the table it leaves and whether it
\* ended in the catch
FileScan(node, keys, table) ==
    LET ext == ExtensionOf(node.name)
    IN  IF ext = "" \/ EXT_MAP(ext) = Null
        THEN [edges |-> <<>>, table |-> table, threw |-> FALSE]
        ELSE IF EXT_MAP(ext) \notin Languages
        \* PATTERNS[lang] is undefined: the for...of throws a TypeError
        THEN [edges |-> <<>>, table |-> table, threw |-> TRUE]
        ELSE
        LET scan == PatternLoop(node, readFileContent(node), PATTERNS(EXT_MAP(ext)),
                                keys, EXT_MAP(ext), table[EXT_MAP(ext)])
        IN  [edges |-> scan.edges,
             table |-> [table EXCEPT ![EXT_MAP(ext)] = scan.cursors],
             threw |-> FALSE]

\* the edges of that iteration when no regular expression was used before
FileEdges(node, keys) == FileScan(node, keys, FreshCursors).edges

\* whether an iteration passes `if (!ext || !EXT_MAP[ext]) continue` and so
\* calls readFileContent
CallsRead(node) ==
    /\ ExtensionOf(node.name) # ""
    /\ EXT_MAP(ExtensionOf(node.name)) # Null

\* whether an iteration reaches readFileContent on a handle that can reject
ReadsHandle(node) == CallsRead(node) /\ node.handle # NoHandle

-----------------------------------------------------------------------------
(* processGraph: the assembly after parseFiles has returned                *)

BaseSize == 4
SizeCap == 20
\* the factor 1.5, in halves
DegreeFactorHalves == 3
LinkWidth == 1

Min(a, b) == IF a <= b THEN a ELSE b

\* new Set(initialData.nodes.map(n => n.id))
NodeIds(nodes) == {nodes[i].id : i \in 1..Len(nodes)}

\* ValidLinks without its filter: every raw edge becomes a link
ValidLinks_Unfiltered(nodes, deps) ==
    [i \in 1..Len(deps) |->
        [source |-> deps[i].source, target |-> deps[i].target, width |-> LinkWidth]]

\* dependencies.filter(both ends are node ids).map(width: 1)
ValidLinks(nodes, deps) ==
    LET kept == SelectSeq(deps, LAMBDA dep :
                    dep.source \in NodeIds(nodes) /\ dep.target \in NodeIds(nodes))
    IN  [i \in 1..Len(kept) |->
            [source |-> kept[i].source, target |-> kept[i].target,
             width |-> LinkWidth]]

\* inDegree.get(id) || 0 after the forEach over validLinks
InDegree(links, id) == Cardinality({i \in 1..Len(links) : links[i].target = id})

\* Size without Math.min: the linear term is not capped
Size_Uncapped(degree) == Num(BaseSize) + degree * DegreeFactorHalves

\* 4 + Math.min(20, degree * 1.5), in halves
Size(degree) == Num(BaseSize) + Min(Num(SizeCap), degree * DegreeFactorHalves)

\* { nodes, links: validLinks } as given to setInitialGraphData
Assemble(nodes, deps) ==
    LET validLinks == ValidLinks(nodes, deps)
    IN  [nodes |-> [i \in 1..Len(nodes) |->
                      [id     |-> nodes[i].id,
                       name   |-> nodes[i].name,
                       group  |-> nodes[i].group,
                       val    |-> Size(InDegree(validLinks, nodes[i].id)),
                       degree |-> InDegree(validLinks, nodes[i].id)]],
         links |-> validLinks]

EmptyGraph == [nodes |-> <<>>, links |-> <<>>]

-----------------------------------------------------------------------------
(* The filter panel of the page: derived lists, the filter effect, toggles *)

\* useState of filters
InitialFilters ==
    [search |-> "", folders |-> {}, extensions |-> {},
     showHidden |-> FALSE, showIsolated |-> TRUE]

\* the extension the panel lists for a file name
ListedExtension(name) ==
    LET ext == Last(Split(name, "."))
    IN  IF ext # "" /\ ext # name THEN ToLowerCase(ext) ELSE "no-ext"

RECURSIVE FolderWalk(_, _, _)
\* parts.forEach of the folder tree: the folder paths it adds from part i on;
\* a part "node_modules" is skipped, an empty currentPath starts afresh
FolderWalk(parts, i, current) ==
    IF i > Len(parts) THEN {}
    ELSE IF parts[i] = "node_modules" THEN FolderWalk(parts, i + 1, current)
    ELSE LET next == IF current # "" THEN current \o "/" \o parts[i] ELSE parts[i]
         IN  {next} \cup FolderWalk(parts, i + 1, next)

\* allFolderPaths of the derived lists
allFolderPaths(graph) ==
    UNION {FolderWalk(DropLast(Split(graph.nodes[k].id, "/")), 1, "") :
              k \in 1..Len(graph.nodes)}

\* availableExtensions of the derived lists, as a set
availableExtensions(graph) ==
    {ListedExtension(graph.nodes[k].name) : k \in 1..Len(graph.nodes)}

\* the folder of a node as the filter computes it
FolderPath(id) == Join(DropLast(Split(id, "/")), "/")

\* the extension of a node as the filter computes it
FinalExt(name) ==
    LET ext == ToLowerCase(Last(Split(name, ".")))
    IN  IF Includes(name, ".") /\ ext # "" THEN ext ELSE "no-ext"

\* node.name.startsWith('.') || node.id.split('/').some(p => p.startsWith('.'))
IsHidden(node) ==
    \/ StartsWith(node.name, ".")
    \/ \E k \in 1..Len(Split(node.id, "/")) : StartsWith(Split(node.id, "/")[k], ".")

\* 4. Folders: a node in a folder passes when its folder is checked
PassesFolders(node, f) ==
    FolderPath(node.id) = "" \/ FolderPath(node.id) \in f.folders

\* the predicate of nodes.filter
PassesFilters(node, f) ==
    /\ f.search = "" \/ Includes(ToLowerCase(node.name), ToLowerCase(f.search))
    /\ f.showHidden \/ ~IsHidden(node)
    /\ ~Includes(node.id, "node_modules")
    /\ PassesFolders(node, f)
    /\ FinalExt(node.name) \in f.extensions

\* 6. Isolated Nodes: without showIsolated only the endpoints of links stay
FinalNodes(filteredNodes, filteredLinks, f) ==
    IF f.showIsolated THEN filteredNodes
    ELSE SelectSeq(filteredNodes,
                   LAMBDA n : \E k \in 1..Len(filteredLinks) :
                                 n.id \in {filteredLinks[k].source, filteredLinks[k].target})

\* the body of the filter effect after its guard
ApplyFilters(graph, f) ==
    LET filteredNodes == SelectSeq(graph.nodes, LAMBDA n : PassesFilters(n, f))
        nodeIds       == {filteredNodes[k].id : k \in 1..Len(filteredNodes)}
        filteredLinks == SelectSeq(graph.links,
                                   LAMBDA l : l.source \in nodeIds /\ l.target \in nodeIds)
    IN  [nodes |-> FinalNodes(filteredNodes, filteredLinks, f), links |-> filteredLinks]

\* the filter effect: nothing is set while the built graph has no node
FilterEffect(graph, f, shown) ==
    IF Len(graph.nodes) = 0 THEN shown ELSE ApplyFilters(graph, f)

\* the effect that initialises the filters when a graph has been built
InitFiltersEffect(graph, f) ==
    IF Len(graph.nodes) > 0
    THEN [f EXCEPT !.folders = allFolderPaths(graph),
                   !.extensions = availableExtensions(graph)]
    ELSE f

RECURSIVE PrefixWalk(_, _, _)
\* "Add all ancestors" of toggleFolder: the path prefixes from part i on
PrefixWalk(parts, i, current) ==
    IF i > Len(parts) THEN {}
    ELSE LET next == IF current # "" THEN current \o "/" \o parts[i] ELSE parts[i]
         IN  {next} \cup PrefixWalk(parts, i + 1, next)

\* the descendants of a folder among the folder paths
Descendants(folderPath, allPaths) ==
    {path \in allPaths : StartsWith(path, folderPath \o "/")}

\* toggleFolder whose unchecking leaves the descendants checked
toggleFolder_KeepDescendants(folders, folderPath, checked, allPaths) ==
    IF checked
    THEN folders \cup {folderPath} \cup Descendants(folderPath, allPaths)
                 \cup PrefixWalk(Split(folderPath, "/"), 1, "")
    ELSE folders \ {folderPath}

\* the new folder set of toggleFolder
toggleFolder(folders, folderPath, checked, allPaths) ==
    IF checked
    THEN folders \cup {folderPath} \cup Descendants(folderPath, allPaths)
                 \cup PrefixWalk(Split(folderPath, "/"), 1, "")
    ELSE (folders \ {folderPath}) \ Descendants(folderPath, allPaths)

\* the new extension set of toggleExtension
toggleExtension(extensions, ext) ==
    IF ext \in extensions THEN extensions \ {ext} ELSE extensions \cup {ext}

\* setFilters followed by the filter effect
SetFilters(f) ==
    /\ filters' = f
    /\ graphData' = FilterEffect(initialGraphData, f, graphData)
    /\ UNCHANGED <<route, picked, tree, initialData, pc, fileMap, nodesToProcess,
                   processed, dependencies, failed, contentRead, initialGraphData,
                   status, loading, resolveVars, sessionVars, callVars>>

\* the search box
ChangeSearch(text) == SetFilters([filters EXCEPT !.search = text])

\* a folder checkbox: e.target.checked is the opposite of what is shown
ToggleFolder(folderPath) ==
    /\ folderPath \in allFolderPaths(initialGraphData)
    /\ SetFilters([filters EXCEPT !.folders =
            toggleFolder(filters.folders, folderPath, folderPath \notin filters.folders,
                         allFolderPaths(initialGraphData))])

\* an extension checkbox
ToggleExtension(ext) ==
    /\ ext \in availableExtensions(initialGraphData)
    /\ SetFilters([filters EXCEPT !.extensions = toggleExtension(filters.extensions, ext)])

\* the checkbox "Show Hidden Files"
ToggleShowHidden == SetFilters([filters EXCEPT !.showHidden = ~filters.showHidden])

\* the checkbox "Show Isolated Nodes"
ToggleShowIsolated == SetFilters([filters EXCEPT !.showIsolated = ~filters.showIsolated])

-----------------------------------------------------------------------------
(* The scan: handleOpenLocal / handleFileChange, processGraph, parseFiles  *)

ProgressInterval == 10

\* processGraph up to its setTimeout
ProcessGraphStart(t) ==
    /\ tree' = t
    /\ initialData' = treeToGraphData(t)
    /\ status' = "Parsing " \o ToString(Len(treeToGraphData(t)))
                 \o " files for dependencies..."
    /\ pc' = "scheduled"

\* handleOpenLocal where showDirectoryPicker exists, up to its await of
\* getFileTree
HandleOpenLocal ==
    /\ ~loading /\ pc \in {"idle", "done"} /\ route = "picker"
    /\ opens > 0 /\ opens' = opens - 1
    /\ loading' = TRUE
    /\ status' = "Scanning " \o DirectoryHandle(picked).name \o "..."
    /\ pc' = "scanning"
    /\ UNCHANGED <<route, picked, tree, initialData, fileMap, nodesToProcess,
                   processed, dependencies, failed, contentRead, initialGraphData,
                   resolveVars, lastIndexes, returned, viewVars, callVars>>

\* handleOpenLocal without its try/catch: nothing is set when getFileTree
\* rejects
CatchOpenError_Uncaught(state) == state

\* catch (err) of handleOpenLocal
CatchOpenError(state) == [status |-> "Error opening folder", loading |-> FALSE]

\* handleOpenLocal after its await: getFileTree has listed the directory and
\* the tree goes to processGraph, or it has rejected and the catch runs
OpenLocalScanned(listed) ==
    /\ pc = "scanning"
    /\ IF listed
       THEN /\ ProcessGraphStart(getFileTree(DirectoryHandle(picked), ""))
            /\ loading' = loading
       ELSE /\ status' = CatchOpenError([status |-> status, loading |-> loading]).status
            /\ loading' = CatchOpenError([status |-> status, loading |-> loading]).loading
            /\ pc' = "idle"
            /\ UNCHANGED <<tree, initialData>>
    /\ UNCHANGED <<route, picked, fileMap, nodesToProcess, processed,
                   dependencies, failed, contentRead, initialGraphData,
                   resolveVars, sessionVars, viewVars, callVars>>

\* handleFileChange: the upload of the hidden input
HandleFileChange ==
    /\ ~loading /\ pc \in {"idle", "done"} /\ route = "upload"
    /\ opens > 0 /\ opens' = opens - 1
    /\ Len(picked) > 0
    /\ loading' = TRUE
    /\ status' = "Processing files..."
    /\ pc' = "upload"
    /\ UNCHANGED <<route, picked, tree, initialData, fileMap, nodesToProcess,
                   processed, dependencies, failed, contentRead, initialGraphData,
                   resolveVars, lastIndexes, returned, viewVars, callVars>>

\* the timeout of handleFileChange
ProcessUpload ==
    /\ pc = "upload"
    /\ ProcessGraphStart(processFileList(picked))
    /\ UNCHANGED <<route, picked, loading, fileMap, nodesToProcess, processed,
                   dependencies, failed, contentRead, initialGraphData, resolveVars,
                   sessionVars, viewVars, callVars>>

\* the timeout of processGraph calls parseFiles: flatten and map the files
ParseStart ==
    /\ pc = "scheduled"
    /\ nodesToProcess' = mapFiles(tree)
    /\ fileMap' = MapKeys(mapFiles(tree), <<>>)
    /\ processed' = 0
    /\ dependencies' = <<>>
    /\ failed' = {}
    /\ contentRead' = {}
    /\ pc' = IF Len(mapFiles(tree)) = 0 THEN "parsed" ELSE "parsing"
    /\ UNCHANGED <<route, picked, tree, initialData, initialGraphData,
                   status, loading, resolveVars, sessionVars, viewVars, callVars>>

\* the file loop without its try/catch: the rejection leaves parseFiles
CatchReadError_Uncaught(nextPc) == "rejected"

\* catch (err) { console.error(...) } of the file loop: the error is logged
\* and the loop goes on to where it would have gone
CatchReadError(nextPc) == nextPc

\* the progress message of one iteration
ProgressMessage(n, total, name) ==
    "Parsing " \o ToString(n) \o "/" \o ToString(total) \o ": " \o name

\* what leaves parseFiles before the try of an iteration is reached: the
\* progress callback throws, or node.name.split fails on a missing name
ThrowsBeforeTry(node, n, callback) ==
    \/ n % ProgressInterval = 0 /\ callback = "throws"
    \/ ~Present(node, "name")

\* one iteration of the file loop; readOk tells whether readFileContent
\* resolved (TRUE) or rejected (FALSE, caught by the loop's try)
ParseFile(readOk) ==
    /\ pc = "parsing"
    /\ processed < Len(nodesToProcess)
    /\ LET node == nodesToProcess[processed + 1]
       IN  /\ processed' = processed + 1
           /\ status' = IF (processed + 1) % ProgressInterval = 0
                           /\ onProgress = "setStatus"
                        THEN ProgressMessage(processed + 1, Len(nodesToProcess),
                                             NameOf(node))
                        ELSE status
           /\ IF ThrowsBeforeTry(node, processed + 1, onProgress)
              THEN /\ readOk
                   /\ pc' = "rejected"
                   /\ UNCHANGED <<contentRead, dependencies, lastIndexes, failed>>
              ELSE
              /\ contentRead' = IF CallsRead(node) THEN contentRead \cup {node.path}
                                 ELSE contentRead
              /\ LET nextPc == IF processed + 1 = Len(nodesToProcess)
                               THEN "parsed" ELSE "parsing"
                 IN  IF readOk
                     THEN \E scan \in {FileScan(node, fileMap, lastIndexes)} :
                          /\ dependencies' = dependencies \o scan.edges
                          /\ lastIndexes' = scan.table
                          /\ failed' = IF scan.threw THEN failed \cup {node.path}
                                       ELSE failed
                          /\ pc' = IF scan.threw THEN CatchReadError(nextPc) ELSE nextPc
                     ELSE /\ ReadsHandle(node)
                          /\ Cardinality(failed) < MaxFailures
                          /\ dependencies' = dependencies
                          /\ lastIndexes' = lastIndexes
                          /\ failed' = failed \cup {node.path}
                          /\ pc' = CatchReadError(nextPc)
    /\ UNCHANGED <<route, picked, tree, initialData, fileMap, nodesToProcess,
                   initialGraphData, loading, resolveVars, returned, opens,
                   viewVars, callVars>>

\* processGraph after parseFiles has returned, and the effects that follow
\* setInitialGraphData: the filters are initialised and the graph is filtered
ProcessGraphFinish ==
    /\ pc = "parsed"
    /\ \E built \in {Assemble(initialData, dependencies)} :
       \E f \in {InitFiltersEffect(built, filters)} :
          /\ initialGraphData' = built
          /\ filters' = f
          /\ graphData' = FilterEffect(built, f, graphData)
          /\ status' = "Done! " \o ToString(Len(built.nodes)) \o " nodes, "
                       \o ToString(Len(built.links)) \o " edges."
    /\ loading' = FALSE
    /\ pc' = "done"
    /\ returned' = Append(returned, [edges |-> dependencies, failed |-> failed])
    /\ UNCHANGED <<route, picked, tree, initialData, fileMap, nodesToProcess,
                   processed, dependencies, failed, contentRead, resolveVars,
                   lastIndexes, opens, callVars>>

\* catch (err) of processGraph's timeout: parseFiles has rejected
ProcessGraphCatch ==
    /\ pc = "rejected"
    /\ status' = "Error parsing files"
    /\ loading' = FALSE
    /\ pc' = "idle"
    /\ UNCHANGED <<route, picked, tree, initialData, fileMap, nodesToProcess,
                   processed, dependencies, failed, contentRead, initialGraphData,
                   resolveVars, sessionVars, viewVars, callVars>>

\* one iteration of the file loop of a second parseFiles call on the same
\* tree, made without a callback while the first call awaits a read (or
\* before it, or after it); both calls use the regular expressions of
\* PATTERNS. The call returns after its last iteration; between tells that
\* an iteration fell between two iterations of the first call.
SecondParseFile(readOk) ==
    /\ second.pc = "parsing"
    /\ \E leaves \in {mapFiles(tree)} :
          /\ second.processed < Len(leaves)
          /\ LET node   == leaves[second.processed + 1]
                 nextPc == IF second.processed + 1 = Len(leaves)
                           THEN "returned" ELSE "parsing"
                 amid   == second.between
                              \/ (pc = "parsing" /\ 0 < processed
                                  /\ processed < Len(nodesToProcess))
             IN  IF readOk
                 THEN \E scan \in {FileScan(node, MapKeys(leaves, <<>>), lastIndexes)} :
                      /\ second' = [pc |-> nextPc,
                                    processed |-> second.processed + 1,
                                    dependencies |-> second.dependencies \o scan.edges,
                                    failed |-> IF scan.threw
                                               THEN second.failed \cup {node.path}
                                               ELSE second.failed,
                                    between |-> amid]
                      /\ lastIndexes' = scan.table
                 ELSE /\ ReadsHandle(node)
                      /\ Cardinality(second.failed) < MaxFailures
                      /\ second' = [pc |-> nextPc,
                                    processed |-> second.processed + 1,
                                    dependencies |-> second.dependencies,
                                    failed |-> second.failed \cup {node.path},
                                    between |-> amid]
                      /\ lastIndexes' = lastIndexes
    /\ UNCHANGED <<scanVars, pc, fileMap, dependencies, initialGraphData,
                   resolveVars, returned, opens, viewVars, onProgress>>

-----------------------------------------------------------------------------
(* The environment: what the user may pick                                 *)

Routes == {"picker", "upload"}

\* the files of the scanned directory "src", in listing order
ScanPool == <<"src/index.ts", "src/app.ts", "src/app.test.ts">>

\* the reference statements a TypeScript file of the scan may hold
ScanStatements ==
    {Statement("from '_'", "./app", Null), Statement("from '_'", "lodash", Null)}

\* the directories the resolver is run on
ResolveFamilies ==
    { {"a/b/c.ts", "a/d.ts", "a/b/d.ts", "a/d/index.ts", "a/d"},
      {"src/main.ts", "src/utils/index.ts", "src/utils.ts", "src/utils.js", "src/utils"},
      {"app/main.ts", "app/foo/bar.ts", "app/myfoo/bar.ts", "app/lib/foo/bar.js", "app/foo/bar"},
      {"proj/main.ts", "proj/pkg/mod.py", "proj/pkg/mod/__init__.py", "proj/pkg/mod.java",
       "proj/pkg.mod"},
      {"web/main.ts", "web/main.cpp", "web/v1.2/bar.ts", "web/bar.js", "web/bar.js.ts"} }

\* the references the resolver is run on
ResolveReferences ==
    {"../d", "./d", "./utils", "foo/bar", "bar", "lodash",
     "pkg.mod", "v1.2/bar", "bar.js", "../../../a/d"}

\* a path of a file that is in no scanned tree
GhostPath == "node_modules/lodash/index.js"

\* all sequences over S of length at most n
SeqsUpTo(S, n) == UNION {[1..k -> S] : k \in 0..n}

RECURSIVE SumTo(_, _)
\* lens[1] + ... + lens[k]
SumTo(lens, k) == IF k = 0 THEN 0 ELSE lens[k] + SumTo(lens, k - 1)

\* the order-preserving selections of at most n elements of a sequence
SubSeqs(pool, n) ==
    {SelectSeq([i \in 1..Len(pool) |-> i], LAMBDA i : i \in S) :
        S \in {T \in SUBSET (1..Len(pool)) : T # {} /\ Cardinality(T) <= n}}

\* no file lies where another path needs a directory
NoFileAsDirectory(paths) ==
    \A i, j \in 1..Len(paths) : ~StartsWith(paths[j], paths[i] \o "/")

\* the listings of a scan: files of the pool, in pool order; the statements
\* of all the files together are one sequence of at most MaxStatements, cut
\* into the files' texts by their lengths; only files of a catalogued
\* language hold statements
ScanListings ==
    UNION {
        { [k \in 1..Len(sel) |->
              FileObject(ScanPool[sel[k]],
                         SubSeq(cut[1], SumTo(cut[2], k - 1) + 1, SumTo(cut[2], k))) ] :
            cut \in { c \in SeqsUpTo(ScanStatements, MaxStatements)
                               \X [1..Len(sel) -> 0..MaxStatements] :
                        /\ SumTo(c[2], Len(sel)) = Len(c[1])
                        /\ \A k \in 1..Len(sel) :
                              EXT_MAP(ExtensionOf(ScanPool[sel[k]])) = Null
                              => c[2][k] = 0 } } :
        sel \in SubSeqs(ScanPool, MaxFiles) }

\* the files of the scanned directory "site", in listing order
SitePool ==
    <<"site/DEFAULT.ASP", "site/inc/header.asp", "site/main.go", "site/notes.md",
      "site/x.constructor">>

\* the reference statements a file of directory "site" may hold, by language,
\* in text order
SiteStatements(lng) ==
    CASE lng = "asp" ->
            <<Statement("<!-- #include (_)='_' -->", "file", "inc/header.asp"),
              Statement("Server.Execute('_'", "../../site/inc/header.asp", Null),
              Statement("Server.Execute('_'", "header.asp", Null)>>
      [] lng = "go" ->
            <<Statement("import ( _ )", "", Null),
              Statement("import '_'", "inc/header.asp", Null)>>
      [] OTHER -> <<>>

\* the texts a file of directory "site" may hold: selections of the
\* statements of its language, in text order
SiteTexts(path) ==
    LET stmts == SiteStatements(EXT_MAP(ExtensionOf(Last(Split(path, "/")))))
    IN  {<<>>} \cup {[k \in 1..Len(sel) |-> stmts[sel[k]]] :
                        sel \in SubSeqs(stmts, MaxStatements)}

RECURSIVE SiteFiles(_, _)
\* the listings of the first k selected files of the pool, with their texts
SiteFiles(sel, k) ==
    IF k = 0 THEN {<<>>}
    ELSE {Append(files, FileObject(SitePool[sel[k]], text)) :
            files \in SiteFiles(sel, k - 1), text \in SiteTexts(SitePool[sel[k]])}

\* the listings of a scan of directory "site"
SiteListings == UNION {SiteFiles(sel, Len(sel)) : sel \in SubSeqs(SitePool, MaxFiles)}

\* the directories that are opened twice: those of at most two files, each
\* holding a statement
RerunListings ==
    {files \in ScanListings :
        /\ Len(files) <= 2
        /\ \A k \in 1..Len(files) : Len(files[k].content) >= 1}

\* the listings the resolver is run on: files of one family, in any order
ResolveListings ==
    UNION { { [k \in 1..Len(paths) |-> FileObject(paths[k], <<>>)] :
                paths \in { q \in SeqsUpTo(family, MaxFiles) :
                              /\ Len(q) > 0
                              /\ \A i, j \in 1..Len(q) : i # j => q[i] # q[j]
                              /\ NoFileAsDirectory(q) } } :
            family \in ResolveFamilies }

\* what a progress callback handed to parseFiles may do: there is none, it
\* is the page's (msg) => setStatus(msg), or it throws
CallbackBehaviours == {"none", "setStatus", "throws"}

\* the files of a directory "lib" that has enough files for a progress message
ProgressPool ==
    <<"lib/m01.ts", "lib/m02.ts", "lib/m03.ts", "lib/m04.ts", "lib/m05.ts", "lib/m06.ts",
      "lib/m07.ts", "lib/m08.ts", "lib/m09.ts", "lib/m10.ts", "lib/m11.ts">>

\* the text a file of directory "lib" may hold, by its position
ProgressTexts(k) ==
    IF k = 1 THEN {<<>>, <<Statement("from '_'", "./m02", Null)>>}
    ELSE IF k = ProgressInterval THEN {<<>>, <<Statement("from '_'", "./m01", Null)>>}
    ELSE IF k = ProgressInterval + 1 THEN {<<>>, <<Statement("from '_'", "./m10", Null)>>}
    ELSE {<<>>}

RECURSIVE ProgressFiles(_)
\* the listings of the first k files of directory "lib", with their texts
ProgressFiles(k) ==
    IF k = 0 THEN {<<>>}
    ELSE {Append(files, FileObject(ProgressPool[k], text)) :
            files \in ProgressFiles(k - 1), text \in ProgressTexts(k)}

\* the listings of directory "lib": those of ProgressInterval files or one more
ProgressListings == ProgressFiles(ProgressInterval) \cup ProgressFiles(ProgressInterval + 1)

\* a node without one of its fields
Without(node, field) == [f \in DOMAIN node \ {field} |-> node[f]]

\* the trees handed to parseFiles by a caller that does not keep to FileNode:
\* the tree of an uploaded directory as it is, with its directory lacking
\* children or kind, with a leaf lacking name or kind, or beside a directory
\* that lacks children
DefectiveTrees(files) ==
    LET t == processFileList(files)
    IN  {t,
         <<Without(t[1], "children")>>,
         <<Without(t[1], "kind")>>,
         t \o <<Without(DirectoryNode("docs", "docs", <<>>), "children")>>}
        \cup {<<[t[1] EXCEPT !.children[k] = Without(t[1].children[k], "name")]>> :
                 k \in 1..Len(t[1].children)}
        \cup {<<[t[1] EXCEPT !.children[k] =
                     Without(Without(t[1].children[k], "kind"), "children")]>> :
                 k \in 1..Len(t[1].children)}

\* the directory "proj" the filter panel is used on: a file in the directory
\* itself that imports one of a folder, a hidden folder, a node_modules folder
ViewListing ==
    <<FileObject("proj/main.ts", <<Statement("from '_'", "./src/app", Null)>>),
      FileObject("proj/src/app.ts", <<>>),
      FileObject("proj/.git/config", <<>>),
      FileObject("proj/node_modules/x.ts", <<>>)>>

\* what the user may type into the search box
SearchTexts == {"", "APP"}

\* the user, the graph of a directory being shown, turns to an empty
\* directory and will open it
PickEmptyDirectory ==
    /\ pc = "done" /\ Len(picked) > 0 /\ route = "picker" /\ opens = 0
    /\ picked' = <<>>
    /\ opens' = 1
    /\ UNCHANGED <<route, tree, initialData, pc, fileMap, nodesToProcess,
                   processed, dependencies, failed, contentRead, initialGraphData,
                   status, loading, resolveVars, lastIndexes, returned,
                   viewVars, callVars>>

\* the tree the handlers build from the picked directory
TreeOf(r, files) ==
    IF r = "picker" THEN getFileTree(DirectoryHandle(files), "")
    ELSE processFileList(files)

\* n copies of x
Run(x, n) == [i \in 1..n |-> x]

-----------------------------------------------------------------------------
(* Specifications                                                          *)

Idle ==
    /\ tree = <<>> /\ initialData = <<>>
    /\ fileMap = <<>> /\ nodesToProcess = <<>> /\ processed = 0
    /\ dependencies = <<>> /\ failed = {} /\ contentRead = {}
    /\ initialGraphData = EmptyGraph
    /\ status = "Ready" /\ loading = FALSE
    /\ filters = InitialFilters /\ graphData = EmptyGraph

\* no second parseFiles call
NoSecond ==
    [pc |-> "absent", processed |-> 0, dependencies |-> <<>>, failed |-> {},
     between |-> FALSE]

\* parseFiles as the page calls it: the callback is (msg) => setStatus(msg),
\* no other call runs beside it
PageCall == onProgress = "setStatus" /\ second = NoSecond

NoResolve ==
    currentPath = Null /\ importPath = Null /\ lang = Null /\ resolved = Null

\* the module and the page after construction: no regular expression was
\* used, no parseFiles call has returned
NewSession == lastIndexes = FreshCursors /\ returned = <<>>

\* the page after construction, with the directory the user is about to pick
Init ==
    /\ route \in Routes
    /\ picked \in ScanListings
    /\ pc = "idle"
    /\ Idle
    /\ NoResolve
    /\ NewSession
    /\ PageCall
    /\ opens = 1

Next ==
    \/ HandleOpenLocal
    \/ \E listed \in BOOLEAN : OpenLocalScanned(listed)
    \/ HandleFileChange
    \/ ProcessUpload
    \/ ParseStart
    \/ \E readOk \in BOOLEAN : ParseFile(readOk)
    \/ ProcessGraphFinish

Spec == Init /\ [][Next]_vars

\* the same page when the user, once the graph is shown, opens the same
\* unchanged directory a second time
InitRerun ==
    /\ route \in Routes
    /\ picked \in RerunListings
    /\ pc = "idle"
    /\ Idle
    /\ NoResolve
    /\ NewSession
    /\ PageCall
    /\ opens = 2

SpecRerun == InitRerun /\ [][Next]_vars

\* what the browser does without the user: a listing, a timeout, a read, a
\* promise that settles is never put off for ever
Fairness ==
    /\ WF_vars(\E listed \in BOOLEAN : OpenLocalScanned(listed))
    /\ WF_vars(ProcessUpload)
    /\ WF_vars(ParseStart)
    /\ WF_vars(\E readOk \in BOOLEAN : ParseFile(readOk))
    /\ WF_vars(ProcessGraphFinish)

\* the page when the directory that is opened twice holds one file with one
\* reference, in a browser that goes on
InitLive == InitRerun /\ Len(picked) = 1 /\ Len(picked[1].content) = 1

SpecLive == InitLive /\ [][Next]_vars /\ Fairness

\* the page when the user opens a directory "site" of several languages
InitSite ==
    /\ route \in Routes
    /\ picked \in SiteListings
    /\ pc = "idle"
    /\ Idle
    /\ NoResolve
    /\ NewSession
    /\ PageCall
    /\ opens = 1

SpecSite == InitSite /\ [][Next]_vars

\* resolveImportPath as parseFiles calls it: on the index of a tree, from a
\* file of a catalogued language, for one reference
InitResolve ==
    /\ route \in Routes
    /\ picked \in ResolveListings
    /\ pc = "resolve"
    /\ tree = TreeOf(route, picked)
    /\ nodesToProcess = mapFiles(tree)
    /\ fileMap = MapKeys(mapFiles(tree), <<>>)
    /\ initialData = <<>> /\ processed = 0 /\ dependencies = <<>> /\ failed = {}
    /\ contentRead = {}
    /\ initialGraphData = EmptyGraph /\ status = "Ready" /\ loading = TRUE
    /\ filters = InitialFilters /\ graphData = EmptyGraph
    /\ \E k \in 1..Len(nodesToProcess) :
          /\ EXT_MAP(ExtensionOf(nodesToProcess[k].name)) \in Languages
          /\ currentPath = nodesToProcess[k].path
          /\ lang = EXT_MAP(ExtensionOf(nodesToProcess[k].name))
    /\ importPath \in ResolveReferences
    /\ resolved = Null
    /\ NewSession
    /\ PageCall
    /\ opens = 0

ResolveReference ==
    /\ pc = "resolve"
    /\ resolved' = resolveImportPath(currentPath, importPath, fileMap, lang)
    /\ pc' = "resolved"
    /\ UNCHANGED <<scanVars, fileMap, dependencies, initialGraphData,
                   currentPath, importPath, lang, sessionVars, viewVars, callVars>>

NextResolve == ResolveReference

SpecResolve == InitResolve /\ [][NextResolve]_vars

\* the assembly of processGraph on any list of raw edges: two runs of equal
\* edges between the nodes of a tree and a path outside it
InitAssemble ==
    /\ route \in Routes
    /\ picked = [k \in 1..2 |-> FileObject(ScanPool[k], <<>>)]
    /\ pc = "parsed"
    /\ tree = TreeOf(route, picked)
    /\ initialData = treeToGraphData(tree)
    /\ nodesToProcess = mapFiles(tree)
    /\ fileMap = MapKeys(mapFiles(tree), <<>>)
    /\ processed = Len(nodesToProcess)
    /\ failed = {}
    /\ contentRead = {nodesToProcess[k].path : k \in 1..Len(nodesToProcess)}
    /\ \E e1, e2 \in [source : NodeIds(initialData) \cup {GhostPath},
                      target : NodeIds(initialData) \cup {GhostPath}] :
       \E n1, n2 \in 0..MaxRun :
          dependencies = Run(e1, n1) \o Run(e2, n2)
    /\ initialGraphData = EmptyGraph
    /\ filters = InitialFilters /\ graphData = EmptyGraph
    /\ status = "Parsing 2 files for dependencies..."
    /\ loading = TRUE
    /\ NoResolve
    /\ NewSession
    /\ PageCall
    /\ opens = 0

NextAssemble == ProcessGraphFinish

SpecAssemble == InitAssemble /\ [][NextAssemble]_vars

\* the page when the user opens the directory "proj" and uses the filter
\* panel
InitView ==
    /\ route \in Routes
    /\ picked = ViewListing
    /\ pc = "idle"
    /\ Idle
    /\ NoResolve
    /\ NewSession
    /\ PageCall
    /\ opens = 1

NextView ==
    \/ Next
    \/ PickEmptyDirectory
    \/ \E text \in SearchTexts \ {filters.search} : ChangeSearch(text)
    \/ \E folderPath \in allFolderPaths(initialGraphData) : ToggleFolder(folderPath)
    \/ \E ext \in availableExtensions(initialGraphData) : ToggleExtension(ext)
    \/ ToggleShowHidden
    \/ ToggleShowIsolated

SpecView == InitView /\ [][NextView]_vars

\* the timeout of processGraph about to call parseFiles on the tree
CallScheduled ==
    /\ pc = "scheduled"
    /\ initialData = treeToGraphData(tree)
    /\ fileMap = <<>> /\ nodesToProcess = <<>> /\ processed = 0
    /\ dependencies = <<>> /\ failed = {} /\ contentRead = {}
    /\ initialGraphData = EmptyGraph
    /\ filters = InitialFilters /\ graphData = EmptyGraph
    /\ status = "Parsing " \o ToString(Len(initialData)) \o " files for dependencies..."
    /\ loading = TRUE
    /\ NoResolve
    /\ NewSession
    /\ opens = 0

\* parseFiles called on the tree of a directory "lib", with each behaviour of
\* the progress callback
InitProgress ==
    /\ route \in Routes
    /\ picked \in ProgressListings
    /\ tree = TreeOf(route, picked)
    /\ CallScheduled
    /\ onProgress \in CallbackBehaviours
    /\ second = NoSecond

NextCall ==
    \/ ParseStart
    \/ \E readOk \in BOOLEAN : ParseFile(readOk)
    \/ ProcessGraphFinish
    \/ ProcessGraphCatch

SpecProgress == InitProgress /\ [][NextCall]_vars

\* parseFiles called on a tree that may break the FileNode interface
InitDefective ==
    /\ route = "upload"
    /\ picked \in RerunListings
    /\ tree \in DefectiveTrees(picked)
    /\ CallScheduled
    /\ PageCall

SpecDefective == InitDefective /\ [][NextCall]_vars

\* two parseFiles calls on the tree of one directory whose files hold one
\* reference or two, both about to start
InitTwo ==
    /\ route \in Routes
    /\ picked \in {files \in RerunListings :
                     \A k \in 1..Len(files) : Len(files[k].content) <= 2}
    /\ tree = TreeOf(route, picked)
    /\ CallScheduled
    /\ onProgress = "setStatus"
    /\ second = [NoSecond EXCEPT !.pc = "parsing"]

NextTwo ==
    \/ ParseStart
    \/ \E readOk \in BOOLEAN : ParseFile(readOk)
    \/ ProcessGraphFinish
    \/ \E readOk \in BOOLEAN : SecondParseFile(readOk)

SpecTwo == InitTwo /\ [][NextTwo]_vars

-----------------------------------------------------------------------------
(* Claims                                                                  *)

Links == initialGraphData.links
Nodes == initialGraphData.nodes
GraphIds == {Nodes[i].id : i \in 1..Len(Nodes)}
Assembled == pc = "done"

\* C1: once processGraph has assembled the graph, every link's source and
\* target is the id of a node of that graph.
C1_NoDanglingLinks ==
    Assembled =>
        \A i \in 1..Len(Links) :
            Links[i].source \in GraphIds /\ Links[i].target \in GraphIds

\* C1 witness: raw edges into and out of a path outside the tree were handed
\* to the assembly, and links survived it
C1_Witness ==
    /\ Assembled
    /\ \E i \in 1..Len(dependencies) : dependencies[i].target = GhostPath
    /\ \E i \in 1..Len(dependencies) : dependencies[i].source = GhostPath
    /\ Len(Links) > 0

\* C2 (as claimed): the links hold at most one link per ordered
\* (source, target) pair.
C2_OneLinkPerPair ==
    Assembled =>
        \A i, j \in 1..Len(Links) :
            (Links[i].source = Links[j].source /\ Links[i].target = Links[j].target)
            => i = j

\* the distinct (source, target) pairs among the links into a node
DistinctEdgesInto(id) ==
    {<<Links[i].source, Links[i].target>> : i \in {k \in 1..Len(Links) : Links[k].target = id}}

\* C3 (as claimed): the degree of every node is the number of distinct
\* (source, target) edges whose target is the node.
C3_DegreeCountsDistinctEdges ==
    Assembled =>
        \A n \in 1..Len(Nodes) :
            Nodes[n].degree = Cardinality(DistinctEdgesInto(Nodes[n].id))

\* C4: node size is monotone in the in-degree, at least the base 4, at most
\* base + cap = 24, and exactly 4 at degree 0 (sizes are held in halves).
C4_SizeMonotoneBounded ==
    Assembled =>
        /\ \A a, b \in 1..Len(Nodes) :
              Nodes[a].degree > Nodes[b].degree => Nodes[a].val >= Nodes[b].val
        /\ \A n \in 1..Len(Nodes) :
              /\ Nodes[n].val >= Num(4)
              /\ Nodes[n].val <= Num(24)
              /\ Nodes[n].degree = 0 => Nodes[n].val = Num(4)

\* C4 witness: one node past the cap (degree 15, size 24), another below it
\* with a smaller positive degree and a smaller size
C4_Witness ==
    /\ Assembled
    /\ \E a, b \in 1..Len(Nodes) :
          /\ Nodes[a].degree = 15 /\ Nodes[a].val = Num(24)
          /\ Nodes[b].degree > 0 /\ Nodes[b].degree < Nodes[a].degree
          /\ Nodes[b].val < Nodes[a].val

Resolved == pc = "resolved"
Relative == StartsWith(importPath, ".")

\* the endings of a path: its suffixes, the empty one included
Endings(path) == {SubSeq(path, i, Len(path)) : i \in 1..(Len(path) + 1)}

\* ".<ext>": a dot, then at least one character, none of them "/"
IsDotExt(x) == Len(x) >= 2 /\ CharAt(x, 1) = "." /\ ~Includes(x, "/")

\* the path is s, or ends in "/" followed by s
AtBoundary(path, s) == path = s \/ EndsWith(path, "/" \o s)

DirSegments(path) == SelectSeq(DropLast(Split(path, "/")), LAMBDA p : p # "")

RECURSIVE LexicalJoin(_, _)
\* the segments after joining parts onto segs: the join of all parts but the
\* last, then the last applied ("." nothing, ".." one segment less)
LexicalJoin(segs, parts) ==
    IF Len(parts) = 0 THEN segs
    ELSE LET before == LexicalJoin(segs, DropLast(parts))
         IN  IF Last(parts) = "." THEN before
             ELSE IF Last(parts) = ".."
                  THEN SubSeq(before, 1, Len(before) - 1)
             ELSE before \o <<Last(parts)>>

\* C6: for a reference that begins with ".", the searched path is the source
\* directory's segments joined with the reference's, "." a no-op and ".."
\* removing the last segment; from a/b/c.ts, "../d" searches at a/d, never
\* at a/b/d: it resolves to a/d.ts when that is indexed and no file a/d is.
C6_RelativeJoin ==
    (Resolved /\ Relative) =>
        /\ ResolvedPath(currentPath, importPath)
              = Join(LexicalJoin(DirSegments(currentPath), Split(importPath, "/")), "/")
        /\ (currentPath = "a/b/c.ts" /\ importPath = "../d") =>
              /\ ResolvedPath(currentPath, importPath) = "a/d"
              /\ resolved \in {Null, "a/d", "a/d.ts", "a/d/index.ts"}
              /\ (Has(fileMap, "a/d.ts") /\ ~Has(fileMap, "a/d")) => resolved = "a/d.ts"

\* C6 witness: a/b/c.ts refers to "../d" with a/d.ts and a/b/d.ts indexed
C6_Witness ==
    /\ Resolved /\ currentPath = "a/b/c.ts" /\ importPath = "../d"
    /\ Has(fileMap, "a/d.ts") /\ Has(fileMap, "a/b/d.ts")
    /\ resolved = "a/d.ts"

\* the positions of the extensions ext with base + mid + ext indexed
IndexedAt(base, mid) ==
    {i \in 1..Len(RelativeExtensions) : Has(fileMap, base \o mid \o RelativeExtensions[i])}

\* the least element of a non-empty set of numbers
Least(S) == CHOOSE i \in S : \A j \in S : i <= j

\* C7: a relative reference with joined path P resolves to P when P is
\* indexed; else to P + ext for the first ext of the list with P + ext
\* indexed; else to P + "/index" + ext for the first such ext; else to nothing.
C7_RelativeOrder ==
    (Resolved /\ Relative) =>
        LET P == ResolvedPath(currentPath, importPath)
        IN  resolved =
               IF Has(fileMap, P) THEN P
               ELSE IF IndexedAt(P, "") # {}
                    THEN P \o RelativeExtensions[Least(IndexedAt(P, ""))]
               ELSE IF IndexedAt(P, "/index") # {}
                    THEN P \o "/index" \o RelativeExtensions[Least(IndexedAt(P, "/index"))]
               ELSE Null

\* C7 witness: "./utils" with utils.js and utils/index.ts indexed and
\* utils.ts not: the plain extension .js wins over the index file
C7_Witness ==
    /\ Resolved /\ currentPath = "src/main.ts" /\ importPath = "./utils"
    /\ Has(fileMap, "src/utils.js") /\ Has(fileMap, "src/utils/index.ts")
    /\ ~Has(fileMap, "src/utils.ts")
    /\ resolved = "src/utils.js"

Edge(source, target) == [source |-> source, target |-> target]

\* parseFiles has returned
Parsed == pc \in {"parsed", "done"}

\* the tree {src/index.ts imports "./app", src/app.ts empty, src/app.test.ts
\* imports "./app"} as an upload lists it
C9_Tree ==
    /\ route = "upload"
    /\ picked = <<FileObject("src/index.ts", <<Statement("from '_'", "./app", Null)>>),
                  FileObject("src/app.ts", <<>>),
                  FileObject("src/app.test.ts", <<Statement("from '_'", "./app", Null)>>)>>

\* C9: for that tree, with every read succeeding, parseFiles returns exactly
\* the edges src/index.ts -> src/app.ts and src/app.test.ts -> src/app.ts (no
\* edge into src/app.test.ts), and the graph gives src/app.ts in-degree 2.
C9_AppScenario ==
    (C9_Tree /\ failed = {}) =>
        /\ Parsed =>
              /\ Len(dependencies) = 2
              /\ {dependencies[i] : i \in 1..Len(dependencies)}
                    = {Edge("src/index.ts", "src/app.ts"),
                       Edge("src/app.test.ts", "src/app.ts")}
        /\ Assembled =>
              \A n \in 1..Len(Nodes) :
                  Nodes[n].degree = IF Nodes[n].id = "src/app.ts" THEN 2 ELSE 0

\* C9 witness: the scan of that tree, assembled
C9_Witness ==
    /\ C9_Tree /\ failed = {} /\ Assembled
    /\ Len(Links) = 2
    /\ \E n \in 1..Len(Nodes) : Nodes[n].id = "src/app.ts" /\ Nodes[n].degree = 2

\* the returned edges whose source is the given path, in order
EdgesFrom(path) == SelectSeq(dependencies, LAMBDA dep : dep.source = path)

\* C10: when a file's read fails, parseFiles still returns (the scan never
\* stops in a rejection); no returned edge has the file as source; every
\* other file's edges are the ones its text gives on the full index; and
\* the file is still a key of the index.
C10_ReadFailureIsLocal ==
    /\ pc # "rejected"
    /\ \A i \in 1..Len(dependencies) : dependencies[i].source \notin failed
    /\ \A path \in failed : Has(fileMap, path)
    /\ Parsed =>
          \A k \in 1..Len(nodesToProcess) :
              nodesToProcess[k].path \notin failed =>
                  EdgesFrom(nodesToProcess[k].path)
                      = FileEdges(nodesToProcess[k], fileMap)

\* C10 witness: the read of src/app.ts failed, parseFiles returned, and an
\* edge of another file points at src/app.ts
C10_Witness ==
    /\ Parsed /\ failed = {"src/app.ts"}
    /\ \E i \in 1..Len(dependencies) :
          dependencies[i] = Edge("src/index.ts", "src/app.ts")

\* how often an edge occurs in a list of edges
Occurrences(edges, e) == Cardinality({i \in 1..Len(edges) : edges[i] = e})

\* two lists of edges are equal as multisets
SameMultiset(a, b) ==
    /\ Len(a) = Len(b)
    /\ \A i \in 1..Len(a) : Occurrences(a, a[i]) = Occurrences(b, a[i])

\* C11: two parseFiles calls of one session on the same unchanged tree, the
\* same reads succeeding in both, return the same multiset of edges, though
\* the second call uses the regular expressions the first call has used.
C11_RerunSameEdges ==
    \A i, j \in 1..Len(returned) :
        returned[i].failed = returned[j].failed
            => SameMultiset(returned[i].edges, returned[j].edges)

\* C11 witness: the directory was scanned twice without a failed read, and
\* both calls returned the same two or more edges
C11_Witness ==
    /\ Len(returned) = 2
    /\ returned[1].failed = {} /\ returned[2].failed = {}
    /\ Len(returned[1].edges) >= 2
    /\ returned[2].edges = returned[1].edges

\* C12: between two files every cursor of the pattern table is 0, and the
\* edges a call returns for a file whose read succeeded are those the file's
\* text gives on the index with a table no file has used, whatever files the
\* same call or an earlier call has scanned before it.
C12_MatchesIndependent ==
    /\ lastIndexes = FreshCursors
    /\ Parsed =>
          \A k \in 1..Len(nodesToProcess) :
              nodesToProcess[k].path \notin failed =>
                  EdgesFrom(nodesToProcess[k].path)
                      = FileScan(nodesToProcess[k], fileMap, FreshCursors).edges

\* C12 witness: the second call has returned; it scanned two files of the
\* same language, each holding statements, and returned edges of both
C12_Witness ==
    /\ Len(returned) = 1 /\ pc = "parsed"
    /\ Len(nodesToProcess) = 2 /\ failed = {}
    /\ \A k \in 1..2 :
          /\ ExtensionOf(nodesToProcess[k].name) = "ts"
          /\ Len(readFileContent(nodesToProcess[k])) >= 1
          /\ Len(EdgesFrom(nodesToProcess[k].path)) >= 1

\* the general extension list of the claim C13
C13_GeneralList ==
    <<".js", ".ts", ".tsx", ".jsx", ".css", ".scss", ".h", ".hpp", ".cpp", ".cs">>

\* the part of a reference after its last "/"
FinalSegment(ref) ==
    LET cuts == {i \in 1..Len(ref) : CharAt(ref, i) = "/"}
    IN  IF cuts = {} THEN ref
        ELSE SubSeq(ref, (CHOOSE i \in cuts : \A c \in cuts : c <= i) + 1, Len(ref))

\* the index positions whose path ends with the candidate at a segment boundary
MatchingKeys(c) == {i \in 1..Len(fileMap) : AtBoundary(fileMap[i], c)}

\* the result is null when no candidate matches a key, else a key that
\* matches one of the candidates
ResolvedAmong(candidates) ==
    IF \A j \in 1..Len(candidates) : MatchingKeys(candidates[j]) = {}
    THEN resolved = Null
    ELSE \E j \in 1..Len(candidates) : \E i \in MatchingKeys(candidates[j]) :
            resolved = fileMap[i]

\* C13: for a non-relative reference from a file whose language is neither
\* py nor java the suffix candidates are the reference verbatim, followed,
\* only when its final "/"-separated segment holds no ".", by the reference
\* with each extension of the general list, in list order, and the result
\* is null or a key matching one of these candidates.
C13_DefaultCandidates ==
    (Resolved /\ ~Relative /\ lang \notin {"py", "java"}) =>
        LET expected ==
                <<importPath>> \o
                (IF \E i \in 1..Len(FinalSegment(importPath)) :
                        CharAt(FinalSegment(importPath), i) = "."
                 THEN <<>>
                 ELSE [i \in 1..Len(C13_GeneralList) |-> importPath \o C13_GeneralList[i]])
        IN  /\ PotentialSuffixes(importPath, lang) = expected
            /\ ResolvedAmong(expected)

\* C13 witness: "v1.2/bar", whose final segment has no ".", resolved by an
\* appended extension, and "bar.js" left unresolved beside web/bar.js.ts
C13_Witness ==
    /\ Resolved /\ lang \in {"ts", "cpp"}
    /\ \/ importPath = "v1.2/bar" /\ resolved # Null /\ EndsWith(resolved, "/v1.2/bar.ts")
       \/ /\ importPath = "bar.js" /\ resolved = Null
          /\ \E i \in 1..Len(fileMap) : EndsWith(fileMap[i], "/bar.js.ts")

\* the reference with every "." replaced by "/"
DotsToSlashes(ref) == Join(Split(ref, "."), "/")

\* C14: for a non-relative reference from a py file the suffix candidates
\* are <translated>.py then <translated>/__init__.py, from a java file the
\* one candidate is <translated>.java, where <translated> is the reference
\* with its dots turned into "/"; the result is null or a key matching one
\* of them, never a key matched by the raw dotted reference.
C14_DottedCandidates ==
    (Resolved /\ ~Relative /\ lang \in {"py", "java"}) =>
        LET expected ==
                IF lang = "py"
                THEN <<DotsToSlashes(importPath) \o ".py",
                       DotsToSlashes(importPath) \o "/__init__.py">>
                ELSE <<DotsToSlashes(importPath) \o ".java">>
        IN  /\ PotentialSuffixes(importPath, lang) = expected
            /\ ResolvedAmong(expected)
            /\ resolved # Null => ~AtBoundary(resolved, importPath)

\* C14 witness: "pkg.mod" from a py file resolved to the package's
\* __init__.py, a file pkg.mod being in the index
C14_Witness ==
    /\ Resolved /\ lang = "py" /\ importPath = "pkg.mod"
    /\ resolved # Null /\ EndsWith(resolved, "/pkg/mod/__init__.py")
    /\ \E i \in 1..Len(fileMap) : EndsWith(fileMap[i], "/pkg.mod")

\* C15: in suffix resolution the result is the first index entry, in index
\* order, that matches the earliest candidate that any entry matches, and
\* null when no candidate is matched: an entry matching the verbatim
\* reference wins over an earlier entry matching reference + extension.
C15_CandidateOrderFirst ==
    (Resolved /\ ~Relative) =>
        LET candidates == PotentialSuffixes(importPath, lang)
            hits == {j \in 1..Len(candidates) : MatchingKeys(candidates[j]) # {}}
        IN  IF hits = {} THEN resolved = Null
            ELSE resolved = fileMap[Least(MatchingKeys(candidates[Least(hits)]))]

\* C15 witness: foo/bar.ts precedes foo/bar in the index and "foo/bar"
\* resolved to foo/bar
C15_Witness ==
    /\ Resolved /\ importPath = "foo/bar" /\ lang = "ts"
    /\ \E i, k \in 1..Len(fileMap) :
          /\ i < k
          /\ EndsWith(fileMap[i], "/foo/bar.ts") /\ ~EndsWith(fileMap[i], "lib/foo/bar.ts")
          /\ EndsWith(fileMap[k], "app/foo/bar") /\ resolved = fileMap[k]

\* the capture of a statement that is taken as the reference: the later
\* group when it is there and not empty, else the earlier one
Chosen(stmt) == IF stmt.g2 \notin {Null, ""} THEN stmt.g2 ELSE stmt.g1

\* a non-relative reference for which no indexed path ends, at a segment
\* boundary, with the reference or the reference plus a general extension
Unmatched(ref) ==
    /\ ~StartsWith(ref, ".")
    /\ \A i \in 1..Len(fileMap) :
          /\ ~AtBoundary(fileMap[i], ref)
          /\ \A x \in 1..Len(C13_GeneralList) :
                ~AtBoundary(fileMap[i], ref \o C13_GeneralList[x])

\* C16: a file has at most as many returned edges as it has statements whose
\* reference is not such an unmatched non-relative reference (a reference
\* like "lodash" produces no edge), and every scanned file is a node of the
\* assembled graph, of degree 0 when no link points at it.
C16_UnresolvedGivesNoEdge ==
    /\ Parsed =>
          \A k \in 1..Len(nodesToProcess) :
              LET content == readFileContent(nodesToProcess[k])
              IN  Len(EdgesFrom(nodesToProcess[k].path))
                     <= Cardinality({p \in 1..Len(content) :
                                        ~Unmatched(Chosen(content[p]))})
    /\ Assembled =>
          \A k \in 1..Len(nodesToProcess) :
              \E n \in 1..Len(Nodes) :
                  /\ Nodes[n].id = nodesToProcess[k].path
                  /\ (\A i \in 1..Len(Links) : Links[i].target # Nodes[n].id)
                        => Nodes[n].degree = 0

\* C16 witness: src/index.ts holds only references to lodash, its read
\* succeeded, it is a node of degree 0 and the source of no link, while
\* the graph has a link
C16_Witness ==
    /\ Assembled /\ failed = {} /\ Len(Links) >= 1
    /\ \E k \in 1..Len(nodesToProcess) :
          /\ nodesToProcess[k].name = "index.ts"
          /\ Len(readFileContent(nodesToProcess[k])) >= 1
          /\ \A p \in 1..Len(readFileContent(nodesToProcess[k])) :
                readFileContent(nodesToProcess[k])[p].g1 = "lodash"
          /\ \A i \in 1..Len(Links) : Links[i].source # nodesToProcess[k].path
          /\ \E n \in 1..Len(Nodes) :
                Nodes[n].id = nodesToProcess[k].path /\ Nodes[n].degree = 0

\* the extensions of the catalogue
C17_Catalogue ==
    {"js", "mjs", "cjs", "ts", "mts", "jsx", "tsx", "css", "scss", "sass", "py",
     "dart", "rs", "go", "java", "cs", "cpp", "cc", "cxx", "c", "h", "hpp", "rb",
     "php", "isml", "jsp", "jspx", "jspf", "asp", "aspx", "asa"}

\* the file loop has gone through the k-th file
Visited(k) == pc \in {"parsing", "parsed", "done"} /\ k <= processed

\* the file is skipped without error: not read, no error logged, no edge
\* from it, and still a key of the index
Skipped(node) ==
    /\ node.path \notin contentRead
    /\ node.path \notin failed
    /\ EdgesFrom(node.path) = <<>>
    /\ Has(fileMap, node.path)

\* C17: a file whose extension, compared case-insensitively, is not in the
\* catalogue is skipped without error: its content is never read, no error
\* is raised for it, it is the source of no edge, and it stays in the index.
C17_UncataloguedSkipped ==
    \A k \in 1..Len(nodesToProcess) :
        (Visited(k) /\ ExtensionOf(nodesToProcess[k].name) \notin C17_Catalogue)
            => Skipped(nodesToProcess[k])

\* C17, for the extensions that name no property of Object.prototype: such
\* a file is skipped without error, and a catalogued extension written in
\* upper case is scanned
C17_SkippedUnlessInherited ==
    \A k \in 1..Len(nodesToProcess) :
        Visited(k) =>
            /\ ExtensionOf(nodesToProcess[k].name)
                    \notin C17_Catalogue \cup {"constructor", "__proto__"}
                  => Skipped(nodesToProcess[k])
            /\ nodesToProcess[k].name = "DEFAULT.ASP"
                  => nodesToProcess[k].path \in contentRead

\* the language of a scanned file
LanguageOf(node) == EXT_MAP(ExtensionOf(node.name))

\* what the usual checks give for the joined path P of a relative reference:
\* P, else P + the first extension, else P/index + the first extension
RelativeTarget(P) ==
    IF Has(fileMap, P) THEN P
    ELSE IF IndexedAt(P, "") # {}
         THEN P \o RelativeExtensions[Least(IndexedAt(P, ""))]
    ELSE IF IndexedAt(P, "/index") # {}
         THEN P \o "/index" \o RelativeExtensions[Least(IndexedAt(P, "/index"))]
    ELSE Null

\* what suffix resolution gives for a non-relative reference
SuffixTarget(ref, lng) ==
    LET candidates == PotentialSuffixes(ref, lng)
        hits == {j \in 1..Len(candidates) : MatchingKeys(candidates[j]) # {}}
    IN  IF hits = {} THEN Null
        ELSE fileMap[Least(MatchingKeys(candidates[Least(hits)]))]

\* the file a reference of a scanned file stands for, Null when none
Target(node, ref) ==
    IF ref = "" THEN Null
    ELSE IF StartsWith(ref, ".")
    THEN RelativeTarget(Join(LexicalJoin(DirSegments(node.path), Split(ref, "/")), "/"))
    ELSE SuffixTarget(ref, LanguageOf(node))

\* the edges the statements of one form give, in text order
EdgesOfForm(node, content, form) ==
    LET ofForm == SelectSeq(content, LAMBDA st : st.form = form)
        hits   == SelectSeq(ofForm, LAMBDA st : Target(node, Chosen(st)) # Null)
    IN  [i \in 1..Len(hits) |-> Edge(node.path, Target(node, Chosen(hits[i])))]

RECURSIVE ExpectedEdges(_, _, _)
\* the edges of a file: those of its language's forms from the j-th on
ExpectedEdges(node, forms, j) ==
    IF j > Len(forms) THEN <<>>
    ELSE EdgesOfForm(node, readFileContent(node), forms[j])
         \o ExpectedEdges(node, forms, j + 1)

\* the reference is relative and has more ".." than the file's directory has
\* segments
OverPops(node, ref) ==
    /\ StartsWith(ref, ".")
    /\ Cardinality({i \in 1..Len(Split(ref, "/")) : Split(ref, "/")[i] = ".."})
          > Len(DirSegments(node.path))

\* C18: a file holding a relative reference with more ".." than its
\* directory has segments raises no error of its own; the excess ".." are
\* dropped and what is left is resolved from the root by the usual checks;
\* the following matches give their edges and every file is gone through.
C18_OverPopResolves ==
    /\ pc # "rejected"
    /\ Parsed =>
          /\ processed = Len(nodesToProcess)
          /\ \A k \in 1..Len(nodesToProcess) :
                LET node == nodesToProcess[k]
                IN  (/\ node.path \notin failed
                     /\ \E p \in 1..Len(readFileContent(node)) :
                           OverPops(node, Chosen(readFileContent(node)[p])))
                    => EdgesFrom(node.path)
                          = ExpectedEdges(node, PATTERNS(LanguageOf(node)), 1)

\* C18 witness: the upload's site/DEFAULT.ASP executes
\* "../../site/inc/header.asp" and then "header.asp"; both gave an edge to
\* site/inc/header.asp and a later file gave an edge too
C18_Witness ==
    /\ Parsed /\ failed = {} /\ route = "upload"
    /\ \E k \in 1..Len(nodesToProcess) :
          /\ nodesToProcess[k].path = "site/DEFAULT.ASP"
          /\ readFileContent(nodesToProcess[k])
                = <<Statement("Server.Execute('_'", "../../site/inc/header.asp", Null),
                    Statement("Server.Execute('_'", "header.asp", Null)>>
          /\ EdgesFrom("site/DEFAULT.ASP")
                = <<Edge("site/DEFAULT.ASP", "site/inc/header.asp"),
                    Edge("site/DEFAULT.ASP", "site/inc/header.asp")>>
          /\ \E i \in 1..Len(dependencies) : dependencies[i].source = "site/main.go"

\* C19: for every file whose read succeeded, the returned edges are those of
\* its statements when the reference of a statement is the later capture
\* group if that is there and not empty and the earlier group otherwise: one
\* edge for every statement whose reference is not empty and resolves, none
\* for a statement whose chosen capture is empty.
C19_LaterGroupFirst ==
    Parsed =>
        \A k \in 1..Len(nodesToProcess) :
            LET node == nodesToProcess[k]
                content == readFileContent(node)
            IN  (node.path \notin failed /\ LanguageOf(node) \in Languages) =>
                    /\ Len(EdgesFrom(node.path))
                          = Cardinality({p \in 1..Len(content) :
                                            /\ Chosen(content[p]) # ""
                                            /\ Target(node, Chosen(content[p])) # Null})
                    /\ \A i \in 1..Len(EdgesFrom(node.path)) :
                          \E p \in 1..Len(content) :
                              /\ Chosen(content[p]) # ""
                              /\ EdgesFrom(node.path)[i].target
                                    = Target(node, Chosen(content[p]))

\* C19 witness: DEFAULT.ASP includes (file = "inc/header.asp") and has the
\* edge to the header; main.go holds an empty import group and an import,
\* and has one edge
C19_Witness ==
    /\ Parsed /\ failed = {}
    /\ \E k, g \in 1..Len(nodesToProcess) :
          /\ nodesToProcess[k].name = "DEFAULT.ASP"
          /\ readFileContent(nodesToProcess[k])
                = <<Statement("<!-- #include (_)='_' -->", "file", "inc/header.asp")>>
          /\ Len(EdgesFrom(nodesToProcess[k].path)) = 1
          /\ EndsWith(EdgesFrom(nodesToProcess[k].path)[1].target, "/inc/header.asp")
          /\ nodesToProcess[g].name = "main.go"
          /\ readFileContent(nodesToProcess[g])
                = <<Statement("import ( _ )", "", Null),
                    Statement("import '_'", "inc/header.asp", Null)>>
          /\ Len(EdgesFrom(nodesToProcess[g].path)) = 1

RECURSIVE LeafPaths(_)
\* the paths of the file leaves of a tree
LeafPaths(nodes) ==
    IF Len(nodes) = 0 THEN {}
    ELSE (IF nodes[1].kind = "file" THEN {nodes[1].path}
          ELSE LeafPaths(nodes[1].children))
         \cup LeafPaths(Tail(nodes))

RECURSIVE DirectoryPaths(_)
\* the paths of the directories of a tree
DirectoryPaths(nodes) ==
    IF Len(nodes) = 0 THEN {}
    ELSE (IF nodes[1].kind = "directory"
          THEN {nodes[1].path} \cup DirectoryPaths(nodes[1].children)
          ELSE {})
         \cup DirectoryPaths(Tail(nodes))

\* C20: every edge parseFiles has pushed has a source and a target that are
\* paths of file leaves of the input tree, never of a directory; these
\* paths are exactly the node ids treeToGraphData gives for the tree; so
\* the assembled graph has a link for every returned edge.
C20_EdgesBetweenLeaves ==
    pc \in {"parsing", "parsed", "done"} =>
        /\ \A i \in 1..Len(dependencies) :
              /\ dependencies[i].source \in LeafPaths(tree)
              /\ dependencies[i].target \in LeafPaths(tree)
              /\ dependencies[i].source \notin DirectoryPaths(tree)
              /\ dependencies[i].target \notin DirectoryPaths(tree)
        /\ LeafPaths(tree) = NodeIds(treeToGraphData(tree))
        /\ LeafPaths(tree) = NodeIds(initialData)
        /\ Assembled =>
              /\ Len(Links) = Len(dependencies)
              /\ \A i \in 1..Len(Links) :
                    /\ Links[i].source = dependencies[i].source
                    /\ Links[i].target = dependencies[i].target

\* C20 witness: an uploaded tree with the directory src was scanned, three
\* or more edges were returned and the graph has as many links
C20_Witness ==
    /\ Assembled /\ route = "upload"
    /\ DirectoryPaths(tree) = {"src"}
    /\ Len(dependencies) >= 3
    /\ Len(Links) = Len(dependencies)

RECURSIVE EdgesAlone(_, _, _)
\* what parseFiles returns for the leaves when nothing but the lost reads
\* intervenes: the edges of each read file, in file order
EdgesAlone(leaves, keys, lost) ==
    IF Len(leaves) = 0 THEN <<>>
    ELSE (IF leaves[1].path \in lost THEN <<>> ELSE FileEdges(leaves[1], keys))
         \o EdgesAlone(Tail(leaves), keys, lost)

\* the parseFiles call is over: it has returned or it has rejected
CallOver == pc \in {"parsed", "rejected"}

\* C21: whatever the progress callback does, a parseFiles call ends by
\* returning the edges, in the order, that the call without a callback returns
\* for the same reads: the callback never stops the extraction.
C21_CallbackAdvisory ==
    CallOver =>
        /\ pc = "parsed"
        /\ dependencies = EdgesAlone(nodesToProcess, fileMap, failed)

\* (C21) with a callback that returns, and with none, the call returns those
\* edges
C21_ReturningCallbackAdvisory ==
    CallOver /\ onProgress # "throws" =>
        /\ pc = "parsed"
        /\ dependencies = EdgesAlone(nodesToProcess, fileMap, failed)

RECURSIVE WellFormed(_)
\* the nodes keep to the FileNode interface: each holds name, kind and path,
\* and each directory holds children that keep to it
WellFormed(nodes) ==
    \A k \in 1..Len(nodes) :
        /\ {"name", "kind", "path"} \subseteq DOMAIN nodes[k]
        /\ nodes[k].kind \in {"file", "directory"}
        /\ nodes[k].kind = "directory" =>
              /\ Present(nodes[k], "children")
              /\ WellFormed(nodes[k].children)

\* C22: a parseFiles call rejects exactly when its tree breaks the FileNode
\* interface; for such a tree it never returns an edge list.
C22_RejectsExactlyMalformed ==
    CallOver => (pc = "rejected" <=> ~WellFormed(tree))

\* (C22) the call rejects exactly when a file leaf it reaches has no name
C22_RejectsNamelessLeaf ==
    CallOver =>
        (pc = "rejected" <=>
            \E k \in 1..Len(nodesToProcess) : ~Present(nodesToProcess[k], "name"))

\* the status a scan ends with
FinalStatus ==
    \/ StartsWith(status, "Done! ")
    \/ status \in {"Error opening folder", "Error parsing files"}

\* C23: a scan that has been started (loading is true) ends: the page comes
\* to loading = false with the status "Done! ..." or an error message,
\* whatever the listing and the reads give.
C23_ScanEnds == loading ~> (~loading /\ FinalStatus)

\* a scan has ended after a read failed, and the next one could not list the
\* directory
C23_Witness ==
    /\ ~loading /\ status = "Error opening folder"
    /\ Len(returned) = 1 /\ returned[1].failed # {}
    /\ Len(initialGraphData.nodes) > 0

\* the imports found from one file to another: the raw edges of the pair
ImportsBetween(source, target) ==
    Cardinality({k \in 1..Len(dependencies) :
                    dependencies[k].source = source /\ dependencies[k].target = target})

\* C24: the width of every link of the built graph is the number of imports
\* found from the link's source file to its target file.
C24_WidthCountsImports ==
    Assembled =>
        \A i \in 1..Len(Links) :
            Links[i].width = ImportsBetween(Links[i].source, Links[i].target)

\* (C24) every link has the width 1, however many imports join its files
C24_WidthIsOne ==
    Assembled => \A i \in 1..Len(Links) : Links[i].width = LinkWidth

\* the path a file of the picked directory gets in the tree of a route:
\* processFileList keeps webkitRelativePath, getFileTree starts below the
\* picked directory with "/"
RoutePath(r, relativePath) ==
    IF r = "upload" THEN relativePath
    ELSE "/" \o Join(Tail(Split(relativePath, "/")), "/")

\* the edges parseFiles returns for the processFileList tree of the picked
\* directory, every read succeeding
UploadEdges ==
    LET leaves == mapFiles(processFileList(picked))
    IN  EdgesAlone(leaves, MapKeys(leaves, <<>>), {})

\* C25: the references of a directory resolve alike in both routes: with
\* every read succeeding, the getFileTree tree gives the edges the
\* processFileList tree gives, between the same files under the paths of its
\* route ('./app' in /src/index.ts gives /src/app.ts as it gives src/app.ts
\* in src/index.ts).
C25_RoutesResolveAlike ==
    (Parsed /\ failed = {}) =>
        dependencies =
            [k \in 1..Len(UploadEdges) |->
                Edge(RoutePath(route, UploadEdges[k].source),
                     RoutePath(route, UploadEdges[k].target))]

\* (C25) in a getFileTree tree no reference that begins with '.' gives an edge
C25_PickerRelativeUnresolved ==
    (Parsed /\ route = "picker") => dependencies = <<>>

RECURSIVE EdgesThreaded(_, _, _, _)
\* what a parseFiles call that runs alone returns for the leaves, the reads
\* of the lost paths failing: the pattern table goes from file to file
EdgesThreaded(leaves, keys, lost, table) ==
    IF Len(leaves) = 0 THEN <<>>
    ELSE IF leaves[1].path \in lost
         THEN EdgesThreaded(Tail(leaves), keys, lost, table)
         ELSE FileScan(leaves[1], keys, table).edges
              \o EdgesThreaded(Tail(leaves), keys, lost, FileScan(leaves[1], keys, table).table)

\* C26: of two parseFiles calls whose iterations interleave, each returns the
\* edge list it returns when it runs alone with the same reads, though both
\* use the module's regular expressions and their lastIndex.
C26_InterleavedAsAlone ==
    /\ Parsed =>
          dependencies = EdgesThreaded(nodesToProcess, fileMap, failed, FreshCursors)
    /\ second.pc = "returned" =>
          second.dependencies =
              EdgesThreaded(mapFiles(tree), MapKeys(mapFiles(tree), <<>>),
                            second.failed, FreshCursors)

\* both calls have returned edges, and an iteration of the second fell
\* between two iterations of the first
C26_Witness ==
    /\ Parsed /\ second.pc = "returned" /\ second.between
    /\ Len(dependencies) > 0 /\ Len(second.dependencies) > 0

\* C27: no edge parseFiles returns has its source as its target: no file is
\* reported as depending on itself.
C27_NoSelfEdge ==
    Parsed => \A k \in 1..Len(dependencies) :
                 dependencies[k].source # dependencies[k].target

\* the ids of the nodes the graph on display holds
DisplayedIds == NodeIds(graphData.nodes)

\* the filters as the effect that initialises them leaves them for the built
\* graph: every folder and every extension checked, no search text, isolated
\* nodes shown
FiltersInitialised ==
    /\ filters.folders = allFolderPaths(initialGraphData)
    /\ filters.extensions = availableExtensions(initialGraphData)
    /\ filters.search = ""
    /\ filters.showIsolated

\* a path none of whose segments begins with '.', and that does not hold
\* 'node_modules'
PlainPath(id) ==
    /\ \A k \in 1..Len(Split(id, "/")) : ~StartsWith(Split(id, "/")[k], ".")
    /\ ~Includes(id, "node_modules")

\* the nodes of the built graph whose path is plain are all on display
PlainNodesDisplayed ==
    \A k \in 1..Len(initialGraphData.nodes) :
        PlainPath(initialGraphData.nodes[k].id) =>
            initialGraphData.nodes[k].id \in DisplayedIds

\* C28: right after a tree is loaded and the filters are initialised, the
\* graph on display holds every node whose path has no segment beginning with
\* '.' and does not hold 'node_modules', in either ingestion route.
C28_LoadedGraphShowsAll ==
    (pc = "done" /\ Len(initialGraphData.nodes) > 0 /\ FiltersInitialised) =>
        PlainNodesDisplayed

\* (C28) the same for the trees of processFileList alone, whose paths have no
\* leading '/'
C28_UploadGraphShowsAll ==
    (route = "upload" /\ pc = "done" /\ Len(initialGraphData.nodes) > 0
        /\ FiltersInitialised) =>
        PlainNodesDisplayed

\* (C28) in a getFileTree tree the files of the root alone are on display
\* once the filters are initialised: a file lower in the tree is not
C28_PickerShowsRootOnly ==
    (route = "picker" /\ pc = "done" /\ Len(initialGraphData.nodes) > 0
        /\ FiltersInitialised) =>
        \A id \in DisplayedIds : Len(Split(id, "/")) = 2

\* every link on display has its two endpoints among the nodes on display
LinksWithinDisplayed ==
    \A k \in 1..Len(graphData.links) :
        /\ graphData.links[k].source \in DisplayedIds
        /\ graphData.links[k].target \in DisplayedIds

\* the built graph is the one processGraph assembled: no filter change has
\* touched it
BuiltGraphKept ==
    pc = "done" => initialGraphData = Assemble(initialData, dependencies)

\* with 'Show Isolated Nodes' off every node on display is an endpoint of a
\* link on display
NoIsolatedDisplayed ==
    ~filters.showIsolated =>
        \A id \in DisplayedIds :
            \E k \in 1..Len(graphData.links) :
                graphData.links[k].source = id \/ graphData.links[k].target = id

\* C29: after any sequence of filter changes every link on display has both
\* endpoints among the nodes on display, the built graph is left unchanged,
\* and with 'Show Isolated Nodes' off every node on display is an endpoint
\* of a link on display.
C29_DisplayedGraphSound ==
    LinksWithinDisplayed /\ BuiltGraphKept /\ NoIsolatedDisplayed

\* (C29) the same while the built graph has a node: the graph on display is
\* then the built graph under the filters
C29_SoundWhenBuiltHasNodes ==
    Len(initialGraphData.nodes) > 0 =>
        /\ graphData = ApplyFilters(initialGraphData, filters)
        /\ LinksWithinDisplayed /\ NoIsolatedDisplayed

\* (C29) the links stay within the nodes on display, and the built graph is
\* kept, whatever was loaded
C29_LinksWithinAndBuiltKept == LinksWithinDisplayed /\ BuiltGraphKept

\* the ancestor folder paths of a folder path: its proper prefixes of whole
\* segments ('proj' for 'proj/src')
AncestorPaths(folderPath) ==
    LET parts == Split(folderPath, "/")
    IN  {Join(SubSeq(parts, 1, k), "/") : k \in 1..(Len(parts) - 1)}

====
